---------------------------- MODULE Spec2Model ----------------------------
(***************************************************************************)
(* Verification model of the document-to-PDF converter:                    *)
(*   - WordPool            (src/converter/word_pool.py)                    *)
(*   - DocConverter        (src/converter/doc_converter.py)                *)
(*   - RecoveryManager     (src/utils/recovery_manager.py)                 *)
(*   - MainWindow batch    (src/gui/main_window.py)                        *)
(* Each subsystem has its own specification (SpecPool, SpecCompress,       *)
(* SpecBatch); the variables of the other subsystems stay at their initial *)
(* values.                                                                 *)
(***************************************************************************)
EXTENDS Integers, Sequences, FiniteSets, TLC

(***************************************************************************)
(* Bounds of the model.                                                    *)
(***************************************************************************)
NThreads == 2
MaxReq == 5
MaxHandles == 2
MaxDead == 1
MaxSize == 3
MaxJobs == 7
MaxMtime == 1
MaxFiles == 5
MaxNumbered == 4
MaxPools == 2
MaxOldJobs == 2
CacheMaxSize == 4

(***************************************************************************)
(* Program constants.                                                      *)
(***************************************************************************)
PoolCap == 4
DefaultPoolSize == 2
MinLevel == 1
MaxLevel == 9
CheckpointEvery == 5
InitialMaxFileSizeMb == 100
MinMaxFileSizeMb == 1
MaxMaxFileSizeMb == 500

VARIABLES
    \* ---- WordPool ----
    pool_size,            \* self.pool_size
    pool,                 \* self._pool (queue.Queue), a FIFO of handle ids
    lock,                 \* self._lock: 0 when free, else the owning thread
    initialized,          \* self._initialized
    closed,               \* self._closed
    handle,               \* handle id -> the Word instance behind it (see NoHandle)
    pc,                   \* thread -> position in get_word / close ("idle" and
                          \* "rejected": in neither, see BetweenCalls)
    word_instance,        \* thread -> local word_instance (0: None)
    retrieved_from_pool,  \* thread -> local retrieved_from_pool
    \* ---- DocConverter.convert_to_pdf / _compress_pdf, one call ----
    input_exists,         \* input_path.exists()
    file_ext,             \* input_path.suffix as written; lowered at line 57
    enable_compression,   \* compression_settings['enable_compression']
    compression_level,    \* compression_settings['compression_level']
    cpc,                  \* position in convert_to_pdf / _compress_pdf
    success,              \* local success of convert_to_pdf: "none", "true", "false"
    compress_success,     \* outcome of _compress_pdf: "none", "true", "false", "raised"
    returned,             \* what convert_to_pdf returned (see NotReturned)
    pdf_file,             \* the file at pdf_path: [content, size]
    temp_file,            \* size of the file at temp_path, 0 when there is none
    original_size,        \* local original_size of _compress_pdf (0: not read)
    compressed_size,      \* local compressed_size of _compress_pdf (0: not read)
    saved_size,           \* size of the container pdf.save wrote in full (0: none)
    raised_at,            \* the step of _compress_pdf that raised ("none": no step)
    \* ---- MainWindow batch loop and RecoveryManager ----
    files_len,            \* len(self.files_list)
    next_index,           \* the index i that enumerate(self.files_list) yields next
    processed_indices,    \* local processed_indices of _perform_conversion
    failed_indices,       \* local failed_indices of _perform_conversion
    stop_conversion,      \* self.stop_conversion
    bpc,                  \* position of the application: "idle", "loop" (worker
                          \* at the head of the loop), "job" (a job in flight),
                          \* "finished", "died" (worker ended by an exception),
                          \* "crashed", "restarted"
    recovery_file,        \* the file recovery.json on disk (see NoCheckpoint)
    recovery_errors,      \* the RecoveryManager methods that caught an exception
    loaded,               \* what load_state returned at the next start
    finish_args,          \* the (success, failed) counts given to _finish_conversion
    \* ---- DocConverter._convert_doc, one call ----
    is_windows,           \* self.is_windows
    dpc,                  \* position in _convert_doc
    word,                 \* the Word process behind local word: "none", "live",
                          \* "dead" (ended on its own), "quit"
    doc,                  \* the document behind local doc: "none", "open", "closed"
    com_initialized,      \* local com_initialized
    com_tokens,           \* CoInitialize calls of the thread not yet undone
    doc_exit,             \* the exit path taken ("none" while in the try block)
    doc_result,           \* the success returned by _convert_doc ("none": not yet)
    \* ---- FileHandler.validate_file, one path ----
    MAX_FILE_SIZE_MB,     \* FileHandler.MAX_FILE_SIZE_MB
    file_system,          \* what the file system holds at file_path (see NoSuchFile)
    suffix,               \* file_path.suffix.lower()
    validation_cache,     \* FileHandler._validation_cache for file_path: mtime -> entry
    vpc,                  \* position in validate_file
    use_cache,            \* parameter use_cache
    size_mb,              \* local size_mb, in whole MB (0: not read)
    performed,            \* the checks the call has performed, in order
    validation,           \* what the call returned (see NotValidated)
    \* ---- MainWindow._perform_conversion, the body of the loop for one job ----
    auto_number,          \* config conversion.auto_number_files
    ask_overwrite,        \* config conversion.ask_overwrite
    output_folder,        \* self.output_folder is set
    output_files,         \* the destination files on disk (see NoOutput)
    jpc,                  \* position in the loop body
    output_path,          \* local output_path: "none", "plain", "numbered"
    file_status,          \* the status shown for the job (file_list.update_status)
    success_count,        \* local success_count
    fail_count,           \* local fail_count
    job_processed,        \* the index of the job is in processed_indices
    job_failed,           \* the index of the job is in failed_indices
    dispatched,           \* convert_to_pdf has been called for the job
    input_size_mb,        \* size of the input file, in MB
    free_tenths,          \* free space of the volume of the destination, in
                          \* tenths of a MB
    disk_checked,         \* check_disk_space has been called for the job
    \* ---- MainWindow: the file list and the conversion thread ----
    files_list,           \* self.files_list, a list of file ids
    added,                \* how many files have been added so far (ids are 1..added)
    is_converting,        \* self.is_converting
    stop_flag,            \* self.stop_conversion as the worker thread sees it
    convert_command,      \* the handler the convert button calls
    alive_workers,        \* the conversion threads started and not ended
    wpc,                  \* position of the conversion thread: "none", "head"
                          \* (line 432), "body" (lines 436-498), "ended", "raised"
    enum_index,           \* the index enumerate(self.files_list) yields next
    current_file,         \* local file_path of the job in flight (0: none)
    handled,              \* the files handled, handled[i + 1] under index i
    started_with,         \* self.files_list as it was when the batch started
    checkpoint,           \* files and number of indices of the last save_state
    finish_pending,       \* root.after(0, _finish_conversion) is queued
    \* ---- FileHandler.check_file_integrity ----
    integrity_file,       \* the file given to check_file_integrity (see NoDocument)
    ipc,                  \* check_file_integrity: "idle", "called", "returned"
    integrity,            \* what check_file_integrity returned (see NotChecked)
    \* ---- DocConverter._compress_pdf, one image of the PDF ----
    img_level,            \* local compression_level while an image is processed
    img,                  \* the image found in the PDF (see NoImage)
    img_pc,               \* "idle", "found" (line 256), "done"
    img_out,              \* what was encoded for the image and whether it
                          \* replaced the stream (see NoImageOutput)
    \* ---- FileHandler.get_output_path ----
    gp_auto_number,       \* parameter auto_number
    gp_output_dir,        \* parameter output_dir is given
    gp_existing,          \* the paths that exist in the destination directory
    gp_output_path,       \* local output_path (see NoPath)
    gp_counter,           \* local counter (0: not set)
    gpc,                  \* get_output_path: "idle", "called", "loop", "returned"
    \* ---- word_pool.py: get_word_pool and close_global_pool ----
    global_word_pool,     \* _global_word_pool: 0 for None, else the number of the pool
    pool_lock,            \* _pool_lock: 0 when free, else the owning thread
    created_pools,        \* how many WordPool objects have been constructed
    closed_pools,         \* the pools whose close() has run
    spc,                  \* thread -> position in get_word_pool / close_global_pool
    got_pool,             \* thread -> what its last get_word_pool returned (0: None)
    \* ---- main_window_old.py: the overwrite question of the older batch variant ----
    old_i,                \* i of the loop of line 796, from 1
    opc,                  \* position of the worker of the older batch variant
    old_stop_conversion,  \* self.stop_conversion of the older window
    old_exists,           \* job -> its destination exists (output_path.exists())
    old_ask_overwrite,    \* conversion.ask_overwrite
    overwrite_result,     \* job -> element 0 of the list made for it at line 843
    overwrite_bound,      \* job whose list the name overwrite_result is bound to, 0 none
    old_output_path,      \* job whose path the name output_path is bound to, 0 none
    after_queue,          \* ask_user callbacks queued by root.after and not yet run
    dialog_about,         \* job named in the question on screen, 0 when none is shown
    answered_yes,         \* jobs named in a question the user answered yes
    asked_converted,      \* jobs converted after their question was asked
    \* ---- file_handler.py: size and eviction of the class-level validation cache ----
    cache_entries,        \* cache key -> order number of the time stored with it, 0 when absent
    cache_clock,          \* order number of the latest time.time() stored
    expired_below,        \* times numbered below this are older than CACHE_TTL_SECONDS
    epc,                  \* caller -> its position in validate_file
    ekey,                 \* caller -> its cache_key, 0 outside a call
    iter_size,            \* caller -> size of the dict when its iteration began
    current_time,         \* caller -> expired_below as read at line 155
    pending_keys          \* caller -> keys its deletion loop has still to delete

poolVars == <<pool_size, pool, lock, initialized, closed, handle, pc,
              word_instance, retrieved_from_pool>>

convVars == <<input_exists, file_ext, enable_compression, compression_level, cpc,
              success, compress_success, returned, pdf_file, temp_file,
              original_size, compressed_size, saved_size, raised_at>>

batchVars == <<files_len, next_index, processed_indices, failed_indices,
               stop_conversion, bpc, recovery_file, recovery_errors, loaded,
               finish_args>>

docVars == <<is_windows, dpc, word, doc, com_initialized, com_tokens, doc_exit,
             doc_result>>

valVars == <<MAX_FILE_SIZE_MB, file_system, suffix, validation_cache, vpc,
             use_cache, size_mb, performed, validation>>

jobVars == <<auto_number, ask_overwrite, output_folder, output_files, jpc,
             output_path, file_status, success_count, fail_count,
             job_processed, job_failed, dispatched, input_size_mb,
             free_tenths, disk_checked>>

workerVars == <<files_list, added, is_converting, stop_flag, convert_command,
                alive_workers, wpc, enum_index, current_file, handled,
                started_with, checkpoint, finish_pending>>

integrityVars == <<integrity_file, ipc, integrity>>

imageVars == <<img_level, img, img_pc, img_out>>

pathVars == <<gp_auto_number, gp_output_dir, gp_existing, gp_output_path,
              gp_counter, gpc>>

singletonVars == <<global_word_pool, pool_lock, created_pools, closed_pools,
                   spc, got_pool>>

confirmVars == <<old_i, opc, old_stop_conversion, old_exists, old_ask_overwrite,
                 overwrite_result, overwrite_bound, old_output_path,
                 after_queue, dialog_about, answered_yes, asked_converted>>

evictVars == <<cache_entries, cache_clock, expired_below, epc, ekey,
               iter_size, current_time, pending_keys>>

nonPoolVars == <<convVars, batchVars, docVars, valVars, jobVars, workerVars, integrityVars, imageVars, pathVars, singletonVars, confirmVars, evictVars>>

nonConvVars == <<poolVars, batchVars, docVars, valVars, jobVars, workerVars, integrityVars, imageVars, pathVars, singletonVars, confirmVars, evictVars>>

nonBatchVars == <<poolVars, convVars, docVars, valVars, jobVars, workerVars, integrityVars, imageVars, pathVars, singletonVars, confirmVars, evictVars>>

nonDocVars == <<poolVars, convVars, batchVars, valVars, jobVars, workerVars, integrityVars, imageVars, pathVars, singletonVars, confirmVars, evictVars>>

nonValVars == <<poolVars, convVars, batchVars, docVars, jobVars, workerVars, integrityVars, imageVars, pathVars, singletonVars, confirmVars, evictVars>>

nonJobVars == <<poolVars, convVars, batchVars, docVars, valVars, workerVars, integrityVars, imageVars, pathVars, singletonVars, confirmVars, evictVars>>

nonWorkerVars == <<poolVars, convVars, batchVars, docVars, valVars, jobVars, integrityVars, imageVars, pathVars, singletonVars, confirmVars, evictVars>>

nonIntegrityVars == <<poolVars, convVars, batchVars, docVars, valVars, jobVars, workerVars, imageVars, pathVars, singletonVars, confirmVars, evictVars>>

nonImageVars == <<poolVars, convVars, batchVars, docVars, valVars, jobVars, workerVars, integrityVars, pathVars, singletonVars, confirmVars, evictVars>>

nonPathVars == <<poolVars, convVars, batchVars, docVars, valVars, jobVars, workerVars, integrityVars, imageVars, singletonVars, confirmVars, evictVars>>

nonSingletonVars == <<poolVars, convVars, batchVars, docVars, valVars, jobVars, workerVars, integrityVars, imageVars, pathVars, confirmVars, evictVars>>

nonConfirmVars == <<poolVars, convVars, batchVars, docVars, valVars, jobVars, workerVars, integrityVars, imageVars, pathVars, singletonVars, evictVars>>

nonEvictVars == <<poolVars, convVars, batchVars, docVars, valVars, jobVars, workerVars, integrityVars, imageVars, pathVars, singletonVars, confirmVars>>

vars == <<poolVars, convVars, batchVars, docVars, valVars, jobVars, workerVars, integrityVars, imageVars, pathVars, singletonVars, confirmVars, evictVars>>

Threads == 1..NThreads
OldJobs == 1..MaxOldJobs
CacheKeys == 1..(CacheMaxSize + NThreads)
MaxStamp == CacheMaxSize + NThreads
Handles == 1..MaxHandles

Range(s) == {s[k] : k \in DOMAIN s}

(***************************************************************************)
(* A Word instance: st is "unborn" (no process; also after Quit), "live"   *)
(* or "dead" (the process no longer answers); open_docs is                 *)
(* Documents.Count > 0 in its session; origin is the creation site         *)
(* ("init": initialize, "temp": pool empty, "repl": replacement after a    *)
(* failed probe); failedProbe records that the liveness probe has raised   *)
(* on it; creator is the thread whose CoInitialize and DispatchEx made it  *)
(* (0: none).                                                              *)
(***************************************************************************)
NoHandle == [st |-> "unborn", open_docs |-> FALSE, origin |-> "none",
             failedProbe |-> FALSE, creator |-> 0]

(***************************************************************************)
(* WordPool.__init__: pool_size = min(pool_size, 4)                        *)
(***************************************************************************)
UnclampedPoolSize(req) == req

ClampPoolSize(req) == IF req < PoolCap THEN req ELSE PoolCap

\* The pool sizes requested at construction: none, one, and more than the cap.
RequestedSizes == {0, 1, MaxReq}

PoolConstructedWith(req) ==
    /\ pool_size = ClampPoolSize(req)
    /\ pool = <<>>
    /\ lock = 0
    /\ initialized = FALSE
    /\ closed = FALSE
    /\ handle = [h \in Handles |-> NoHandle]
    /\ pc = [t \in Threads |-> "idle"]
    /\ word_instance = [t \in Threads |-> 0]
    /\ retrieved_from_pool = [t \in Threads |-> FALSE]

(***************************************************************************)
(* DocConverter before any convert_to_pdf call.                            *)
(***************************************************************************)
NotReturned == [success |-> "none", compressed |-> FALSE, kind |-> "none"]

NoFile == [content |-> "none", size |-> 0]

ConvIdle ==
    /\ input_exists = FALSE
    /\ file_ext = ".docx"
    /\ enable_compression = FALSE
    /\ compression_level = 6
    /\ cpc = "idle"
    /\ success = "none"
    /\ compress_success = "none"
    /\ returned = NotReturned
    /\ pdf_file = NoFile
    /\ temp_file = 0
    /\ original_size = 0
    /\ compressed_size = 0
    /\ saved_size = 0
    /\ raised_at = "none"

(***************************************************************************)
(* recovery.json: kind is "none" (no file), "corrupt" (a file that is not  *)
(* a complete JSON document) or "state" (the dictionary save_state dumps). *)
(***************************************************************************)
NoCheckpoint == [kind |-> "none", total |-> 0, processed |-> <<>>,
                 failed |-> <<>>, remaining |-> 0]

CorruptCheckpoint == [kind |-> "corrupt", total |-> 0, processed |-> <<>>,
                      failed |-> <<>>, remaining |-> 0]

NotFinished == [called |-> FALSE, success |-> 0, failed |-> 0]

NotLoaded == [kind |-> "unread", total |-> 0, processed |-> <<>>,
              failed |-> <<>>, remaining |-> 0]

(***************************************************************************)
(* MainWindow before a batch is started.                                   *)
(***************************************************************************)
BatchIdle ==
    /\ files_len = 0
    /\ next_index = 0
    /\ processed_indices = <<>>
    /\ failed_indices = <<>>
    /\ stop_conversion = FALSE
    /\ bpc = "idle"
    /\ recovery_file = NoCheckpoint
    /\ recovery_errors = {}
    /\ loaded = NotLoaded
    /\ finish_args = NotFinished

(***************************************************************************)
(* DocConverter with no _convert_doc call in progress.                     *)
(***************************************************************************)
DocIdle ==
    /\ is_windows = TRUE
    /\ dpc = "idle"
    /\ word = "none"
    /\ doc = "none"
    /\ com_initialized = FALSE
    /\ com_tokens = 0
    /\ doc_exit = "none"
    /\ doc_result = "none"

(***************************************************************************)
(* FileHandler with no validate_file call made.                            *)
(***************************************************************************)
Mtimes == 0..MaxMtime

\* No entry of _validation_cache under the key of this path and mtime.
NoEntry == [stored |-> FALSE, valid |-> FALSE, msg |-> "none", expired |-> FALSE]

NotValidated == [valid |-> FALSE, msg |-> "none", from_cache |-> FALSE]

\* Nothing exists at file_path.
NoSuchFile == [kind |-> "missing", size |-> 0, readable |-> FALSE,
               intact |-> FALSE, mtime |-> 0]

ValIdle ==
    /\ MAX_FILE_SIZE_MB = InitialMaxFileSizeMb
    /\ file_system = NoSuchFile
    /\ suffix = ".docx"
    /\ validation_cache = [m \in Mtimes |-> NoEntry]
    /\ vpc = "idle"
    /\ use_cache = TRUE
    /\ size_mb = 0
    /\ performed = <<>>
    /\ validation = NotValidated

(***************************************************************************)
(* The body of the loop of _perform_conversion with no job begun.          *)
(***************************************************************************)
\* Neither the plain destination nor a numbered one exists.
NoOutput == [plain |-> "none", numbered |-> "none"]

JobIdle ==
    /\ auto_number = FALSE
    /\ ask_overwrite = TRUE
    /\ output_folder = FALSE
    /\ output_files = NoOutput
    /\ jpc = "idle"
    /\ output_path = "none"
    /\ file_status = "none"
    /\ success_count = 0
    /\ fail_count = 0
    /\ job_processed = FALSE
    /\ job_failed = FALSE
    /\ dispatched = FALSE
    /\ input_size_mb = 0
    /\ free_tenths = 0
    /\ disk_checked = FALSE

(***************************************************************************)
(* MainWindow after __init__ (lines 51-55): an empty list, no batch.       *)
(***************************************************************************)
\* No recovery file: nothing saved by the worker of this batch.
NoSavedList == [saved |-> FALSE, files |-> <<>>, count |-> 0]

WorkerIdle ==
    /\ files_list = <<>>
    /\ added = 0
    /\ is_converting = FALSE
    /\ stop_flag = FALSE
    /\ convert_command = "_on_convert"
    /\ alive_workers = 0
    /\ wpc = "none"
    /\ enum_index = 0
    /\ current_file = 0
    /\ handled = <<>>
    /\ started_with = <<>>
    /\ checkpoint = NoSavedList
    /\ finish_pending = FALSE

\* No file has been given to check_file_integrity.
NoDocument ==
    [suffix |-> ".txt", content |-> <<>>, openable |-> FALSE, is_zip |-> FALSE,
     opens |-> FALSE, names |-> {}, body_ok |-> FALSE]

NotChecked == [valid |-> FALSE, msg |-> "none"]

IntegrityIdle ==
    /\ integrity_file = NoDocument
    /\ ipc = "idle"
    /\ integrity = NotChecked

\* No image is being looked at.
NoImage == [mode |-> "none", filter |-> "none", width |-> 0, height |-> 0]

NoImageOutput ==
    [format |-> "none", quality |-> 0, resized |-> FALSE, max_side |-> 0,
     smaller |-> FALSE, replaced |-> FALSE]

ImageIdle ==
    /\ img_level = MinLevel
    /\ img = NoImage
    /\ img_pc = "idle"
    /\ img_out = NoImageOutput

\* get_output_path has not computed a path.  Paths in the destination
\* directory are numbers: 0 is '<stem>.pdf', n >= 1 is '<stem> (n).pdf'.
NoPath == 0 - 1

PathIdle ==
    /\ gp_auto_number = FALSE
    /\ gp_output_dir = FALSE
    /\ gp_existing = {}
    /\ gp_output_path = NoPath
    /\ gp_counter = 0
    /\ gpc = "idle"

\* The module-level singleton of word_pool.py before any call: pools are
\* numbered from 1 in the order of their construction, 0 is None.
SingletonIdle ==
    /\ global_word_pool = 0
    /\ pool_lock = 0
    /\ created_pools = 0
    /\ closed_pools = {}
    /\ spc = [t \in Threads |-> "idle"]
    /\ got_pool = [t \in Threads |-> 0]

\* The older batch variant before a batch starts: no job has a path, no
\* question is queued or shown, nothing was answered.
ConfirmIdle ==
    /\ old_i = 1
    /\ opc = "idle"
    /\ old_stop_conversion = FALSE
    /\ old_exists = [j \in OldJobs |-> FALSE]
    /\ old_ask_overwrite = TRUE
    /\ overwrite_result = [j \in OldJobs |-> FALSE]
    /\ overwrite_bound = 0
    /\ old_output_path = 0
    /\ after_queue = 0
    /\ dialog_about = 0
    /\ answered_yes = {}
    /\ asked_converted = {}

\* The size-bounded validation cache when the class is loaded: empty, no
\* call of validate_file under way.
EvictIdle ==
    /\ cache_entries = [k \in CacheKeys |-> 0]
    /\ cache_clock = 0
    /\ expired_below = 1
    /\ epc = [t \in Threads |-> "idle"]
    /\ ekey = [t \in Threads |-> 0]
    /\ iter_size = [t \in Threads |-> 0]
    /\ current_time = [t \in Threads |-> 0]
    /\ pending_keys = [t \in Threads |-> <<>>]

PoolInit ==
    /\ \E req \in RequestedSizes : PoolConstructedWith(req)
    /\ ConvIdle
    /\ BatchIdle
    /\ DocIdle
    /\ ValIdle
    /\ JobIdle
    /\ WorkerIdle
    /\ IntegrityIdle
    /\ ImageIdle
    /\ PathIdle
    /\ SingletonIdle
    /\ ConfirmIdle
    /\ EvictIdle

\* get_word_pool(pool_size = 2): the pool of a process that does not use it.
PoolUnused == PoolConstructedWith(DefaultPoolSize)

(***************************************************************************)
(* queue.Queue(maxsize): full only when maxsize > 0 and qsize >= maxsize.  *)
(***************************************************************************)
QueueFull == pool_size > 0 /\ Len(pool) >= pool_size

Unborn == {h \in Handles : handle[h].st = "unborn"}

\* The k lowest ids of S, in increasing order.
RECURSIVE FreshSeq(_, _)
FreshSeq(S, k) ==
    IF k = 0 \/ S = {} THEN <<>>
    ELSE LET h == CHOOSE x \in S : \A y \in S : x <= y
         IN  <<h>> \o FreshSeq(S \ {h}, k - 1)

\* _create_word_instance succeeding on thread t (CoInitialize, DispatchEx) for
\* each id in hs, at creation site o.
CreateWordInstance(H, hs, t, o) ==
    [h \in Handles |->
        IF h \in hs
        THEN [st |-> "live", open_docs |-> FALSE, origin |-> o,
              failedProbe |-> FALSE, creator |-> t]
        ELSE H[h]]

\* _destroy_instance (lines 154-177): Quit, drop the reference, CoUninitialize.
DestroyInstance(H, h) == [H EXCEPT ![h] = NoHandle]

\* Thread t is in no call of the pool: it has made none yet or its last call
\* has returned ("idle"), or its last get_word raised the RuntimeError of
\* line 96 ("rejected").
BetweenCalls(t) == pc[t] \in {"idle", "rejected"}

\* A get_word that does not look at _closed.
NeverRejectsAcquire == FALSE

\* get_word line 95: if self._closed
RejectsAcquire == closed

(***************************************************************************)
(* get_word lines 95-100 and initialize lines 60-61: the entry checks.     *)
(* A closed pool raises RuntimeError; an uninitialized one is initialized. *)
(***************************************************************************)
GetWordStart(t) ==
    /\ BetweenCalls(t)
    /\ pc' = [pc EXCEPT ![t] = IF RejectsAcquire THEN "rejected"
                               ELSE IF initialized THEN "get" ELSE "init_lock"]
    /\ UNCHANGED <<pool_size, pool, lock, initialized, closed, handle,
                   word_instance, retrieved_from_pool>>
    /\ UNCHANGED nonPoolVars

\* initialize line 63: with self._lock
InitializeLock(t) ==
    /\ pc[t] = "init_lock"
    /\ lock = 0
    /\ lock' = t
    /\ pc' = [pc EXCEPT ![t] = "init_body"]
    /\ UNCHANGED <<pool_size, pool, initialized, closed, handle,
                   word_instance, retrieved_from_pool>>
    /\ UNCHANGED nonPoolVars

\* initialize lines 64-81: create up to pool_size instances, stop at the first
\* creation failure, set _initialized, release the lock.
InitializeBody(t) ==
    /\ pc[t] = "init_body"
    /\ lock = t
    /\ IF initialized
       THEN UNCHANGED <<pool, initialized, handle>>
       ELSE \E k \in 0..(IF pool_size > 0 THEN pool_size ELSE 0) :
              /\ k <= Cardinality(Unborn)
              /\ LET new == FreshSeq(Unborn, k)
                 IN  /\ handle' = CreateWordInstance(handle, Range(new), t, "init")
                     /\ pool' = pool \o new
              /\ initialized' = TRUE
    /\ lock' = 0
    /\ pc' = [pc EXCEPT ![t] = "get"]
    /\ UNCHANGED <<pool_size, closed, word_instance, retrieved_from_pool>>
    /\ UNCHANGED nonPoolVars

\* get_word lines 108-111: self._pool.get(timeout) returning an idle handle.
PoolGet(t) ==
    /\ pc[t] = "get"
    /\ pool # <<>>
    /\ word_instance' = [word_instance EXCEPT ![t] = Head(pool)]
    /\ retrieved_from_pool' = [retrieved_from_pool EXCEPT ![t] = TRUE]
    /\ pool' = Tail(pool)
    /\ pc' = [pc EXCEPT ![t] = "probe"]
    /\ UNCHANGED <<pool_size, lock, initialized, closed, handle>>
    /\ UNCHANGED nonPoolVars

\* get_word lines 112-116: queue.Empty after the timeout (raised only on an
\* empty queue), then a temporary instance is created.
TimeoutCreateTemp(t) ==
    /\ pc[t] = "get"
    /\ pool = <<>>
    /\ Unborn # {}
    /\ LET new == FreshSeq(Unborn, 1)
       IN  /\ handle' = CreateWordInstance(handle, Range(new), t, "temp")
           /\ word_instance' = [word_instance EXCEPT ![t] = new[1]]
    /\ retrieved_from_pool' = [retrieved_from_pool EXCEPT ![t] = FALSE]
    /\ pc' = [pc EXCEPT ![t] = "probe"]
    /\ UNCHANGED <<pool_size, pool, lock, initialized, closed>>
    /\ UNCHANGED nonPoolVars

\* get_word lines 112-115 with _create_word_instance raising: the exception
\* leaves get_word with word_instance = None, so the finally block does nothing.
TimeoutCreateFail(t) ==
    /\ pc[t] = "get"
    /\ pool = <<>>
    /\ pc' = [pc EXCEPT ![t] = "idle"]
    /\ UNCHANGED <<pool_size, pool, lock, initialized, closed, handle,
                   word_instance, retrieved_from_pool>>
    /\ UNCHANGED nonPoolVars

\* get_word lines 130-140: close the open documents. A Close that raises is
\* swallowed and its document stays open; Documents.Count raising on an
\* unresponsive instance skips the loop. The result is the set of possible
\* values of Documents.Count > 0 afterwards.
DocsLeftOpen(H, h) ==
    IF H[h].st = "live" THEN {FALSE, H[h].open_docs} ELSE {H[h].open_docs}

\* get_word line 143: if retrieved_from_pool and not self._closed
ShouldReturnAlways(t) == ~closed

ShouldReturn(t) == retrieved_from_pool[t] /\ ~closed

\* get_word lines 128-143 and 150-152, the finally block up to the decision:
\* document cleanup on the instance in word_instance (H is the handle table
\* when the block is entered), then either go on to put_nowait or destroy.
Finally(t, H) ==
    /\ \E left \in DocsLeftOpen(H, word_instance[t]) :
          LET H2 == [H EXCEPT ![word_instance[t]].open_docs = left]
          IN  IF ShouldReturn(t)
              THEN /\ handle' = H2
                   /\ pc' = [pc EXCEPT ![t] = "put"]
                   /\ UNCHANGED <<word_instance, retrieved_from_pool>>
              ELSE /\ handle' = DestroyInstance(H2, word_instance[t])
                   /\ pc' = [pc EXCEPT ![t] = "idle"]
                   /\ word_instance' = [word_instance EXCEPT ![t] = 0]
                   /\ retrieved_from_pool' = [retrieved_from_pool EXCEPT ![t] = FALSE]

\* get_word lines 119-120: the liveness probe (word_instance.Name) answers;
\* line 126 yields the instance to the caller.
ProbeOk(t) ==
    /\ pc[t] = "probe"
    /\ handle[word_instance[t]].st = "live"
    /\ pc' = [pc EXCEPT ![t] = "use"]
    /\ UNCHANGED <<pool_size, pool, lock, initialized, closed, handle,
                   word_instance, retrieved_from_pool>>
    /\ UNCHANGED nonPoolVars

\* get_word lines 121-124: the probe raises and the replacement is created; the
\* reference to the unresponsive instance is dropped.
ProbeFailReplaceOk(t) ==
    /\ pc[t] = "probe"
    /\ handle[word_instance[t]].st # "live"
    /\ Unborn # {}
    /\ LET new == FreshSeq(Unborn, 1)
           H == [handle EXCEPT ![word_instance[t]].failedProbe = TRUE]
       IN  /\ handle' = CreateWordInstance(H, Range(new), t, "repl")
           /\ word_instance' = [word_instance EXCEPT ![t] = new[1]]
    /\ retrieved_from_pool' = [retrieved_from_pool EXCEPT ![t] = FALSE]
    /\ pc' = [pc EXCEPT ![t] = "use"]
    /\ UNCHANGED <<pool_size, pool, lock, initialized, closed>>
    /\ UNCHANGED nonPoolVars

\* get_word lines 121-123 with _create_word_instance raising: the locals keep
\* the unresponsive instance and the retrieved_from_pool flag it was fetched
\* with, and the finally block runs on them.
ProbeFailReplaceFail(t) ==
    /\ pc[t] = "probe"
    /\ handle[word_instance[t]].st # "live"
    /\ Finally(t, [handle EXCEPT ![word_instance[t]].failedProbe = TRUE])
    /\ UNCHANGED <<pool_size, pool, lock, initialized, closed>>
    /\ UNCHANGED nonPoolVars

\* The caller's with-body, which opens documents (word.Documents.Open) and
\* ends normally or by an exception, followed by the finally block.
BodyExit(t) ==
    /\ pc[t] = "use"
    /\ \E opened \in BOOLEAN :
          /\ opened => handle[word_instance[t]].st = "live"
          /\ Finally(t, [handle EXCEPT ![word_instance[t]].open_docs = @ \/ opened])
    /\ UNCHANGED <<pool_size, pool, lock, initialized, closed>>
    /\ UNCHANGED nonPoolVars

\* get_word lines 144-149: put_nowait, or _destroy_instance on queue.Full.
PutBack(t) ==
    /\ pc[t] = "put"
    /\ IF QueueFull
       THEN /\ handle' = DestroyInstance(handle, word_instance[t])
            /\ UNCHANGED pool
       ELSE /\ pool' = Append(pool, word_instance[t])
            /\ UNCHANGED handle
    /\ pc' = [pc EXCEPT ![t] = "idle"]
    /\ word_instance' = [word_instance EXCEPT ![t] = 0]
    /\ retrieved_from_pool' = [retrieved_from_pool EXCEPT ![t] = FALSE]
    /\ UNCHANGED <<pool_size, lock, initialized, closed>>
    /\ UNCHANGED nonPoolVars

\* close lines 181-182: the unlocked check on a closed pool returns at once.
CloseOnClosed(t) ==
    /\ BetweenCalls(t)
    /\ closed
    /\ pc' = [pc EXCEPT ![t] = "idle"]
    /\ UNCHANGED <<pool_size, pool, lock, initialized, closed, handle,
                   word_instance, retrieved_from_pool>>
    /\ UNCHANGED nonPoolVars

\* close lines 181-184: the unlocked check on a pool that is not closed, then
\* with self._lock.
CloseLock(t) ==
    /\ BetweenCalls(t)
    /\ ~closed
    /\ lock = 0
    /\ lock' = t
    /\ pc' = [pc EXCEPT ![t] = "close_body"]
    /\ UNCHANGED <<pool_size, pool, initialized, closed, handle,
                   word_instance, retrieved_from_pool>>
    /\ UNCHANGED nonPoolVars

\* close lines 185-201: second check, _closed = True, then the drain loop that
\* destroys every instance found in the queue; the lock is released at the end.
CloseBody(t) ==
    /\ pc[t] = "close_body"
    /\ lock = t
    /\ IF closed
       THEN UNCHANGED <<closed, pool, handle>>
       ELSE /\ closed' = TRUE
            /\ pool' = <<>>
            /\ handle' = [h \in Handles |->
                            IF h \in Range(pool) THEN NoHandle ELSE handle[h]]
    /\ lock' = 0
    /\ pc' = [pc EXCEPT ![t] = "idle"]
    /\ UNCHANGED <<pool_size, initialized, word_instance, retrieved_from_pool>>
    /\ UNCHANGED nonPoolVars

\* Environment: the engine process behind an instance stops responding while
\* the instance is idle in the pool or in a caller's hands.
HandleDies(h) ==
    /\ handle[h].st = "live"
    /\ \/ h \in Range(pool)
       \/ \E t \in Threads : word_instance[t] = h /\ pc[t] \in {"probe", "use"}
    /\ Cardinality({g \in Handles : handle[g].st = "dead"}) < MaxDead
    /\ handle' = [handle EXCEPT ![h].st = "dead"]
    /\ UNCHANGED <<pool_size, pool, lock, initialized, closed, pc,
                   word_instance, retrieved_from_pool>>
    /\ UNCHANGED nonPoolVars

PoolNext ==
    \/ \E t \in Threads : GetWordStart(t)
    \/ \E t \in Threads : InitializeLock(t)
    \/ \E t \in Threads : InitializeBody(t)
    \/ \E t \in Threads : PoolGet(t)
    \/ \E t \in Threads : TimeoutCreateTemp(t)
    \/ \E t \in Threads : TimeoutCreateFail(t)
    \/ \E t \in Threads : ProbeOk(t)
    \/ \E t \in Threads : ProbeFailReplaceOk(t)
    \/ \E t \in Threads : ProbeFailReplaceFail(t)
    \/ \E t \in Threads : BodyExit(t)
    \/ \E t \in Threads : PutBack(t)
    \/ \E t \in Threads : CloseOnClosed(t)
    \/ \E t \in Threads : CloseLock(t)
    \/ \E t \in Threads : CloseBody(t)
    \/ \E h \in Handles : HandleDies(h)

SpecPool == PoolInit /\ [][PoolNext]_vars

(***************************************************************************)
(* DocConverter.convert_to_pdf and _compress_pdf, one call.                *)
(* The caller's inputs: whether the input exists, its extension and the    *)
(* compression settings.                                                   *)
(***************************************************************************)
Levels == MinLevel..MaxLevel

\* The levels a caller or the configuration file may hand to __init__ (lines
\* 18-33), which stores the settings as they come.
ConfiguredLevels == (MinLevel - 1)..(MaxLevel + 1)

\* _compress_pdf lines 288-315: the JPEG quality chosen for the level.
JpegQuality(level) ==
    CASE level = 1 -> 100
      [] level = 2 -> 95
      [] level = 3 -> 90
      [] level = 4 -> 85
      [] level = 5 -> 80
      [] level = 6 -> 75
      [] level = 7 -> 65
      [] level = 8 -> 55
      [] OTHER -> 45

\* _compress_pdf lines 393-430: the branch of the container save settings.
SavePolicy(level) ==
    IF level = 1 THEN "minimal"
    ELSE IF level = 2 THEN "basic"
    ELSE IF level <= 4 THEN "moderate"
    ELSE IF level <= 6 THEN "strong"
    ELSE "maximum"

Extensions == {".docx", ".doc", ".txt"}

\* Suffixes of input paths as the caller writes them.
WrittenSuffixes == Extensions \cup {".DOCX", ".Doc", ".TXT"}

\* str.lower() on a suffix, line 57.
SuffixLower(s) ==
    CASE s = ".DOCX" -> ".docx"
      [] s = ".Doc" -> ".doc"
      [] s = ".TXT" -> ".txt"
      [] OTHER -> s

\* A dispatch that also hands text files to an engine.
EngineSuffixesWithText == {".docx", ".doc", ".txt"}

\* convert_to_pdf lines 59-64: the suffixes that have an engine.
EngineSuffixes == {".docx", ".doc"}

ConvInit ==
    /\ input_exists \in BOOLEAN
    /\ file_ext \in WrittenSuffixes
    /\ enable_compression \in BOOLEAN
    /\ compression_level \in ConfiguredLevels
    /\ cpc = "start"
    /\ success = "none"
    /\ compress_success = "none"
    /\ returned = NotReturned
    /\ pdf_file = NoFile
    /\ temp_file = 0
    /\ original_size = 0
    /\ compressed_size = 0
    /\ saved_size = 0
    /\ raised_at = "none"
    /\ PoolUnused
    /\ BatchIdle
    /\ DocIdle
    /\ ValIdle
    /\ JobIdle
    /\ WorkerIdle
    /\ IntegrityIdle
    /\ ImageIdle
    /\ PathIdle
    /\ SingletonIdle
    /\ ConfirmIdle
    /\ EvictIdle

\* convert_to_pdf lines 51-52 and 65-66: missing input or unsupported extension.
ConvertReject ==
    /\ cpc = "start"
    /\ ~input_exists \/ SuffixLower(file_ext) \notin EngineSuffixes
    /\ returned' = [success |-> "false", compressed |-> FALSE,
                    kind |-> IF ~input_exists THEN "not_found" ELSE "unsupported"]
    /\ cpc' = "done"
    /\ UNCHANGED <<input_exists, file_ext, enable_compression, compression_level,
                   success, compress_success, pdf_file, temp_file, original_size,
                   compressed_size, saved_size>>
    /\ UNCHANGED <<raised_at, nonConvVars>>

\* convert_to_pdf lines 59-64: _convert_docx / _convert_doc, which return
\* (success, message) and let no exception out; on success the PDF exists.
ConvertDispatch ==
    /\ cpc = "start"
    /\ input_exists /\ SuffixLower(file_ext) \in EngineSuffixes
    /\ \E ok \in BOOLEAN :
          /\ success' = IF ok THEN "true" ELSE "false"
          /\ IF ok
             THEN \E sz \in 1..MaxSize : pdf_file' = [content |-> "converted", size |-> sz]
             ELSE UNCHANGED pdf_file
    /\ cpc' = "converted"
    /\ UNCHANGED <<input_exists, file_ext, enable_compression, compression_level,
                   compress_success, returned, temp_file, original_size,
                   compressed_size, saved_size>>
    /\ UNCHANGED <<raised_at, nonConvVars>>

\* convert_to_pdf line 69: if success and enable_compression
WantsCompression == success = "true" /\ enable_compression

\* convert_to_pdf lines 69-74 without compression: return success, message.
ConvertReturnPlain ==
    /\ cpc = "converted"
    /\ ~WantsCompression
    /\ returned' = [success |-> success, compressed |-> FALSE, kind |-> "converted"]
    /\ cpc' = "done"
    /\ UNCHANGED <<input_exists, file_ext, enable_compression, compression_level,
                   success, compress_success, pdf_file, temp_file, original_size,
                   compressed_size, saved_size>>
    /\ UNCHANGED <<raised_at, nonConvVars>>

\* convert_to_pdf line 70 and _compress_pdf lines 230-233: the call, and the
\* imports succeeding.
CompressEnter ==
    /\ cpc = "converted"
    /\ WantsCompression
    /\ cpc' = "c_stat"
    /\ UNCHANGED <<input_exists, file_ext, enable_compression, compression_level,
                   success, compress_success, returned, pdf_file, temp_file,
                   original_size, compressed_size, saved_size>>
    /\ UNCHANGED <<raised_at, nonConvVars>>

\* _compress_pdf lines 231-233 raising ImportError, lines 454-456: return False.
CompressImportError ==
    /\ cpc = "converted"
    /\ WantsCompression
    /\ compress_success' = "false"
    /\ raised_at' = "import"
    /\ cpc' = "c_return"
    /\ UNCHANGED <<input_exists, file_ext, enable_compression, compression_level,
                   success, returned, pdf_file, temp_file, original_size,
                   compressed_size, saved_size>>
    /\ UNCHANGED nonConvVars

\* _compress_pdf line 236: original_size = pdf_path.stat().st_size
CompressStat ==
    /\ cpc = "c_stat"
    /\ original_size' = pdf_file.size
    /\ cpc' = "c_open"
    /\ UNCHANGED <<input_exists, file_ext, enable_compression, compression_level,
                   success, compress_success, returned, pdf_file, temp_file,
                   compressed_size, saved_size>>
    /\ UNCHANGED <<raised_at, nonConvVars>>

\* _compress_pdf lines 239-387: open the PDF and recompress its images in
\* memory; the files at pdf_path and temp_path are not written.
CompressOpenAndImages ==
    /\ cpc = "c_open"
    /\ cpc' = "c_save"
    /\ UNCHANGED <<input_exists, file_ext, enable_compression, compression_level,
                   success, compress_success, returned, pdf_file, temp_file,
                   original_size, compressed_size, saved_size>>
    /\ UNCHANGED <<raised_at, nonConvVars>>

\* _compress_pdf lines 390-436: pdf.save(temp_path, **save_settings); pdf.close()
CompressSave ==
    /\ cpc = "c_save"
    /\ \E sz \in 1..MaxSize :
          /\ temp_file' = sz
          /\ saved_size' = sz
    /\ cpc' = "c_stat_tmp"
    /\ UNCHANGED <<input_exists, file_ext, enable_compression, compression_level,
                   success, compress_success, returned, pdf_file, original_size,
                   compressed_size>>
    /\ UNCHANGED <<raised_at, nonConvVars>>

\* _compress_pdf line 435 raising: the temporary file may be absent, left as it
\* was, or partly written.
CompressSaveRaises ==
    /\ cpc = "c_save"
    /\ \E sz \in 0..MaxSize : temp_file' = sz
    /\ cpc' = "c_handler"
    /\ raised_at' = cpc
    /\ UNCHANGED <<input_exists, file_ext, enable_compression, compression_level,
                   success, compress_success, returned, pdf_file, original_size,
                   compressed_size, saved_size>>
    /\ UNCHANGED nonConvVars

\* _compress_pdf line 439: compressed_size = temp_path.stat().st_size
CompressStatTemp ==
    /\ cpc = "c_stat_tmp"
    /\ compressed_size' = temp_file
    /\ cpc' = "c_compare"
    /\ UNCHANGED <<input_exists, file_ext, enable_compression, compression_level,
                   success, compress_success, returned, pdf_file, temp_file,
                   original_size, saved_size>>
    /\ UNCHANGED <<raised_at, nonConvVars>>

\* _compress_pdf line 441: if compressed_size < original_size
Smaller == compressed_size < original_size

\* _compress_pdf lines 441-447: os.replace(temp_path, pdf_path); return True
CompressCommit ==
    /\ cpc = "c_compare"
    /\ Smaller
    /\ pdf_file' = [content |-> "rewritten", size |-> temp_file]
    /\ temp_file' = 0
    /\ compress_success' = "true"
    /\ cpc' = "c_return"
    /\ UNCHANGED <<input_exists, file_ext, enable_compression, compression_level,
                   success, returned, original_size, compressed_size, saved_size>>
    /\ UNCHANGED <<raised_at, nonConvVars>>

\* _compress_pdf lines 448-452: temp_path.unlink(); return False
CompressDiscard ==
    /\ cpc = "c_compare"
    /\ ~Smaller
    /\ temp_file' = 0
    /\ compress_success' = "false"
    /\ cpc' = "c_return"
    /\ UNCHANGED <<input_exists, file_ext, enable_compression, compression_level,
                   success, returned, pdf_file, original_size, compressed_size,
                   saved_size>>
    /\ UNCHANGED <<raised_at, nonConvVars>>

\* An exception at line 236 (stat), 242-249 (open, pages), 439 (stat of the
\* temporary file), 443 (os.replace) or 450 (unlink): control goes to the
\* handler at line 457 and no file has changed.
CompressStepRaises ==
    /\ cpc \in {"c_stat", "c_open", "c_stat_tmp", "c_compare"}
    /\ cpc' = "c_handler"
    /\ raised_at' = cpc
    /\ UNCHANGED <<input_exists, file_ext, enable_compression, compression_level,
                   success, compress_success, returned, pdf_file, temp_file,
                   original_size, compressed_size, saved_size>>
    /\ UNCHANGED nonConvVars

\* _compress_pdf lines 457-463: remove the temporary file if it exists and
\* return False.
CompressHandler ==
    /\ cpc = "c_handler"
    /\ temp_file' = 0
    /\ compress_success' = "false"
    /\ cpc' = "c_return"
    /\ UNCHANGED <<input_exists, file_ext, enable_compression, compression_level,
                   success, returned, pdf_file, original_size, compressed_size,
                   saved_size>>
    /\ UNCHANGED <<raised_at, nonConvVars>>

\* _compress_pdf line 462 raising inside the handler: nothing catches it, the
\* exception leaves _compress_pdf.
CompressHandlerUnlinkRaises ==
    /\ cpc = "c_handler"
    /\ temp_file # 0
    /\ compress_success' = "raised"
    /\ raised_at' = "c_handler"
    /\ cpc' = "c_return"
    /\ UNCHANGED <<input_exists, file_ext, enable_compression, compression_level,
                   success, returned, pdf_file, temp_file, original_size,
                   compressed_size, saved_size>>
    /\ UNCHANGED nonConvVars

\* convert_to_pdf lines 70-74: message += " (стиснуто)" when compression
\* succeeded, return success, message; lines 76-79 when _compress_pdf raised:
\* return False, error_msg.
ConvertReturnAfterCompress ==
    /\ cpc = "c_return"
    /\ returned' = IF compress_success = "raised"
                   THEN [success |-> "false", compressed |-> FALSE, kind |-> "error"]
                   ELSE [success |-> success, compressed |-> compress_success = "true",
                         kind |-> "converted"]
    /\ cpc' = "done"
    /\ UNCHANGED <<input_exists, file_ext, enable_compression, compression_level,
                   success, compress_success, pdf_file, temp_file, original_size,
                   compressed_size, saved_size>>
    /\ UNCHANGED <<raised_at, nonConvVars>>

ConvNext ==
    \/ ConvertReject
    \/ ConvertDispatch
    \/ ConvertReturnPlain
    \/ CompressEnter
    \/ CompressImportError
    \/ CompressStat
    \/ CompressOpenAndImages
    \/ CompressSave
    \/ CompressSaveRaises
    \/ CompressStatTemp
    \/ CompressCommit
    \/ CompressDiscard
    \/ CompressStepRaises
    \/ CompressHandler
    \/ CompressHandlerUnlinkRaises
    \/ ConvertReturnAfterCompress

SpecCompress == ConvInit /\ [][ConvNext]_vars

(***************************************************************************)
(* RecoveryManager (src/utils/recovery_manager.py).                        *)
(***************************************************************************)
\* save_state line 56, with the failed jobs left out of the count.
RemainingWithoutFailed(total, processed, failed) == total - Len(processed)

\* save_state line 56: len(files) - len(processed) - len(failed)
Remaining(total, processed, failed) == total - Len(processed) - Len(failed)

\* save_state lines 49-57: the dictionary that is dumped.
StateRecord(total, processed, failed) ==
    [kind |-> "state", total |-> total, processed |-> processed,
     failed |-> failed, remaining |-> Remaining(total, processed, failed)]

\* save_state lines 48-68: the file is rewritten in full, or an exception is
\* caught: open() failed and the file is as it was, or the dump stopped
\* part-way and the file is an incomplete document.
SaveState(total, processed, failed) ==
    \/ /\ recovery_file' = StateRecord(total, processed, failed)
       /\ UNCHANGED recovery_errors
    \/ /\ recovery_errors' = recovery_errors \cup {"save_state"}
       /\ \/ UNCHANGED recovery_file
          \/ recovery_file' = CorruptCheckpoint

\* load_state lines 76-88: None when the file is missing, cannot be read or is
\* not a JSON document; else the dictionary.
LoadState(file, readable) ==
    IF file.kind = "state" /\ readable THEN file ELSE NoCheckpoint

\* get_remaining_files lines 149-160 on a loaded state: the files, named by
\* their index in state['files'], whose index is in neither list, in the
\* order of the list.
GetRemainingFiles(state) ==
    LET processed_set == Range(state.processed \o state.failed)
        all_files == [k \in 1..state.total |-> k - 1]
        NotProcessed(i) == i \notin processed_set
    IN  SelectSeq(all_files, NotProcessed)

\* A clear_state that leaves the file where it is.
ClearStateKeepsFile == UNCHANGED <<recovery_file, recovery_errors>>

\* clear_state lines 96-105: unlink the file if it exists; an exception of
\* unlink is caught and logged, and the file stays.
ClearState ==
    IF recovery_file.kind = "none"
    THEN UNCHANGED <<recovery_file, recovery_errors>>
    ELSE \/ /\ recovery_file' = NoCheckpoint
            /\ UNCHANGED recovery_errors
         \/ /\ recovery_errors' = recovery_errors \cup {"clear_state"}
            /\ UNCHANGED recovery_file

(***************************************************************************)
(* MainWindow: the file list, one batch (_on_convert, _perform_conversion, *)
(* _on_stop_conversion), an abrupt stop of the process, and the recovery   *)
(* check of the next start.                                                *)
(***************************************************************************)
\* The application has started and no file list, batch or recovery file
\* exists yet.
BatchInit ==
    /\ BatchIdle
    /\ PoolUnused
    /\ ConvIdle
    /\ DocIdle
    /\ ValIdle
    /\ JobIdle
    /\ WorkerIdle
    /\ IntegrityIdle
    /\ ImageIdle
    /\ PathIdle
    /\ SingletonIdle
    /\ ConfirmIdle
    /\ EvictIdle

\* _add_files lines 260-266, one new file.
AddFile ==
    /\ bpc \in {"idle", "loop", "job"}
    /\ files_len < MaxJobs
    /\ files_len' = files_len + 1
    /\ UNCHANGED <<next_index, processed_indices, failed_indices, stop_conversion,
                   bpc, recovery_file, recovery_errors, loaded, finish_args>>
    /\ UNCHANGED nonBatchVars

\* _remove_file lines 268-274.
RemoveFile ==
    /\ bpc \in {"idle", "loop", "job"}
    /\ files_len > 0
    /\ files_len' = files_len - 1
    /\ UNCHANGED <<next_index, processed_indices, failed_indices, stop_conversion,
                   bpc, recovery_file, recovery_errors, loaded, finish_args>>
    /\ UNCHANGED nonBatchVars

\* _on_clear lines 276-281; the button is disabled while a batch runs
\* (ControlPanel.set_converting_state).
OnClear ==
    /\ bpc = "idle"
    /\ files_len > 0
    /\ files_len' = 0
    /\ UNCHANGED <<next_index, processed_indices, failed_indices, stop_conversion,
                   bpc, recovery_file, recovery_errors, loaded, finish_args>>
    /\ UNCHANGED nonBatchVars

\* _on_convert lines 373-409 with the user confirming, and the locals of
\* _perform_conversion lines 424-428.
OnConvert ==
    /\ bpc = "idle"
    /\ files_len > 0
    /\ stop_conversion' = FALSE
    /\ next_index' = 0
    /\ processed_indices' = <<>>
    /\ failed_indices' = <<>>
    /\ bpc' = "loop"
    /\ UNCHANGED <<files_len, recovery_file, recovery_errors, loaded, finish_args>>
    /\ UNCHANGED nonBatchVars

\* _on_stop_conversion lines 411-420 with the user confirming.
OnStopConversion ==
    /\ bpc \in {"loop", "job"}
    /\ ~stop_conversion
    /\ stop_conversion' = TRUE
    /\ UNCHANGED <<files_len, next_index, processed_indices, failed_indices, bpc,
                   recovery_file, recovery_errors, loaded, finish_args>>
    /\ UNCHANGED nonBatchVars

\* _perform_conversion lines 432-434 without the test of the stop flag.
JobStartsIgnoringStop ==
    /\ bpc = "loop"
    /\ next_index < files_len
    /\ bpc' = "job"
    /\ UNCHANGED <<files_len, next_index, processed_indices, failed_indices,
                   stop_conversion, recovery_file, recovery_errors, loaded,
                   finish_args>>
    /\ UNCHANGED nonBatchVars

\* _perform_conversion lines 432-434: the iterator yields index next_index
\* and the stop flag is not set; the job of that index is now in flight.
JobStarts ==
    /\ bpc = "loop"
    /\ next_index < files_len
    /\ ~stop_conversion
    /\ bpc' = "job"
    /\ UNCHANGED <<files_len, next_index, processed_indices, failed_indices,
                   stop_conversion, recovery_file, recovery_errors, loaded,
                   finish_args>>
    /\ UNCHANGED nonBatchVars

\* The worker is between line 436 and the end of the loop body.
JobInFlight == bpc = "job"

\* lines 450-452, 465-467, 477-479: fail_count += 1;
\* failed_indices.append(i); continue
FailAndContinue ==
    /\ failed_indices' = Append(failed_indices, next_index)
    /\ next_index' = next_index + 1
    /\ bpc' = "loop"
    /\ UNCHANGED <<files_len, processed_indices, stop_conversion,
                   recovery_file, recovery_errors, loaded, finish_args>>
    /\ UNCHANGED nonBatchVars

\* lines 445-452: validate_file returned (False, error_msg).
JobInvalid ==
    /\ JobInFlight
    /\ \E is_valid \in BOOLEAN : ~is_valid /\ FailAndContinue

\* lines 455-468: the destination exists and is skipped.
JobSkippedExisting ==
    /\ JobInFlight
    /\ \E numbering, output_exists, asking \in BOOLEAN :
          /\ ~numbering /\ output_exists
          /\ asking
          /\ FailAndContinue

\* lines 471-480: check_disk_space returned (False, space_msg).
JobNoDiskSpace ==
    /\ JobInFlight
    /\ \E folder_set, has_space \in BOOLEAN :
          /\ folder_set
          /\ ~has_space
          /\ FailAndContinue

\* lines 482-498: convert_to_pdf returned; the index is recorded and, after
\* every fifth index, the state is saved.
JobConverted ==
    /\ JobInFlight
    /\ \E ok \in BOOLEAN :
          LET p == IF ok THEN Append(processed_indices, next_index)
                         ELSE processed_indices
              f == IF ok THEN failed_indices
                         ELSE Append(failed_indices, next_index)
          IN  /\ processed_indices' = p
              /\ failed_indices' = f
              /\ IF (next_index + 1) % CheckpointEvery = 0
                 THEN SaveState(files_len, p, f)
                 ELSE UNCHANGED <<recovery_file, recovery_errors>>
    /\ next_index' = next_index + 1
    /\ bpc' = "loop"
    /\ UNCHANGED <<files_len, stop_conversion, loaded, finish_args>>
    /\ UNCHANGED nonBatchVars

\* lines 436-498 raising (validate_file at 445, get_output_path at 456,
\* output_path.exists() at 459): _perform_conversion has no handler, the
\* exception ends the worker thread; lines 500-505 do not run.
JobRaises ==
    /\ JobInFlight
    /\ bpc' = "died"
    /\ next_index' = 0
    /\ processed_indices' = <<>>
    /\ failed_indices' = <<>>
    /\ UNCHANGED <<files_len, stop_conversion, recovery_file, recovery_errors,
                   loaded, finish_args>>
    /\ UNCHANGED nonBatchVars

\* lines 432-434 and 500-505: the list is exhausted or the stop flag is seen;
\* clear_state(), the completion callback is given the two counts (which are
\* the lengths of the two index lists) and the locals go out of scope.
LoopEnds ==
    /\ bpc = "loop"
    /\ stop_conversion \/ next_index >= files_len
    /\ ClearState
    /\ finish_args' = [called |-> TRUE, success |-> Len(processed_indices),
                       failed |-> Len(failed_indices)]
    /\ next_index' = 0
    /\ processed_indices' = <<>>
    /\ failed_indices' = <<>>
    /\ bpc' = "finished"
    /\ UNCHANGED <<files_len, stop_conversion, loaded>>
    /\ UNCHANGED nonBatchVars

\* The memory of a process that has ended: only the disk is left.
MemoryLost ==
    /\ files_len' = 0
    /\ next_index' = 0
    /\ processed_indices' = <<>>
    /\ failed_indices' = <<>>
    /\ stop_conversion' = FALSE
    /\ finish_args' = NotFinished

\* The process is stopped abruptly, between two jobs or during one.
AbruptStop ==
    /\ bpc \in {"loop", "job"}
    /\ bpc' = "crashed"
    /\ MemoryLost
    /\ UNCHANGED <<recovery_file, recovery_errors, loaded>>
    /\ UNCHANGED nonBatchVars

\* The application is closed and started again; _check_recovery lines
\* 572-585 of the new process: when the file exists, load_state (through
\* get_recovery_info); when it returned a state, clear_state.
CheckRecovery ==
    /\ bpc \in {"finished", "crashed", "died"}
    /\ bpc' = "restarted"
    /\ IF recovery_file.kind = "none"
       THEN UNCHANGED <<loaded, recovery_file, recovery_errors>>
       ELSE \E readable \in BOOLEAN :
              /\ loaded' = LoadState(recovery_file, readable)
              /\ IF loaded'.kind = "state"
                 THEN ClearState
                 ELSE UNCHANGED <<recovery_file, recovery_errors>>
    /\ MemoryLost
    /\ UNCHANGED nonBatchVars

BatchNext ==
    \/ AddFile
    \/ RemoveFile
    \/ OnClear
    \/ OnConvert
    \/ OnStopConversion
    \/ JobStarts
    \/ JobRaises
    \/ JobInvalid
    \/ JobSkippedExisting
    \/ JobNoDiskSpace
    \/ JobConverted
    \/ LoopEnds
    \/ AbruptStop
    \/ CheckRecovery

SpecBatch == BatchInit /\ [][BatchNext]_vars

(***************************************************************************)
(* DocConverter._convert_doc (src/converter/doc_converter.py), one call.   *)
(***************************************************************************)
DocInit ==
    /\ is_windows \in BOOLEAN
    /\ dpc = "start"
    /\ word = "none"
    /\ doc = "none"
    /\ com_initialized = FALSE
    /\ com_tokens = 0
    /\ doc_exit = "none"
    /\ doc_result = "none"
    /\ PoolUnused
    /\ ConvIdle
    /\ BatchIdle
    /\ ValIdle
    /\ JobIdle
    /\ WorkerIdle
    /\ IntegrityIdle
    /\ ImageIdle
    /\ PathIdle
    /\ SingletonIdle
    /\ ConfirmIdle
    /\ EvictIdle

\* lines 136-137: not on Windows, return False before the try block.
DocNotWindows ==
    /\ dpc = "start"
    /\ ~is_windows
    /\ doc_result' = "false"
    /\ doc_exit' = "not_windows"
    /\ dpc' = "returned"
    /\ UNCHANGED <<is_windows, word, doc, com_initialized, com_tokens>>
    /\ UNCHANGED nonDocVars

\* lines 139-147: the locals are set and the three imports succeed.
DocEnterTry ==
    /\ dpc = "start"
    /\ is_windows
    /\ dpc' = "coinit"
    /\ UNCHANGED <<is_windows, word, doc, com_initialized, com_tokens, doc_exit,
                   doc_result>>
    /\ UNCHANGED nonDocVars

\* A return False or a handled exception inside the try block: control goes
\* to the finally block at line 199.
DocLeaveTry(path) ==
    /\ doc_exit' = path
    /\ doc_result' = "false"
    /\ dpc' = "finally_doc"

\* lines 144-146 raising ImportError, handler at lines 189-190.
DocImportError ==
    /\ dpc = "start"
    /\ is_windows
    /\ DocLeaveTry("import")
    /\ UNCHANGED <<is_windows, word, doc, com_initialized, com_tokens>>
    /\ UNCHANGED nonDocVars

\* lines 149-150: pythoncom.CoInitialize(); com_initialized = True
DocCoInitialize ==
    /\ dpc = "coinit"
    /\ com_tokens' = com_tokens + 1
    /\ com_initialized' = TRUE
    /\ dpc' = "dispatch"
    /\ UNCHANGED <<is_windows, word, doc, doc_exit, doc_result>>
    /\ UNCHANGED nonDocVars

\* line 149 raising, handler at lines 194-196: no token was taken.
DocCoInitializeRaises ==
    /\ dpc = "coinit"
    /\ DocLeaveTry("other")
    /\ UNCHANGED <<is_windows, word, doc, com_initialized, com_tokens>>
    /\ UNCHANGED nonDocVars

\* line 157: word = win32com.client.DispatchEx("Word.Application")
DocDispatch ==
    /\ dpc = "dispatch"
    /\ word' = "live"
    /\ dpc' = "visible"
    /\ UNCHANGED <<is_windows, doc, com_initialized, com_tokens, doc_exit, doc_result>>
    /\ UNCHANGED nonDocVars

\* lines 158-159: word.Visible = False; word.DisplayAlerts = 0
DocHideWord ==
    /\ dpc = "visible"
    /\ word = "live"
    /\ dpc' = "open"
    /\ UNCHANGED <<is_windows, word, doc, com_initialized, com_tokens, doc_exit,
                   doc_result>>
    /\ UNCHANGED nonDocVars

\* lines 157-162: DispatchEx raised (no Word process) or one of the two
\* assignments raised (the process exists); return False.
DocWordStartFails ==
    /\ dpc \in {"dispatch", "visible"}
    /\ DocLeaveTry("word_start")
    /\ UNCHANGED <<is_windows, word, doc, com_initialized, com_tokens>>
    /\ UNCHANGED nonDocVars

\* lines 165-171: doc = word.Documents.Open(..., ReadOnly=True, ...)
DocOpen ==
    /\ dpc = "open"
    /\ word = "live"
    /\ doc' = "open"
    /\ dpc' = "save"
    /\ UNCHANGED <<is_windows, word, com_initialized, com_tokens, doc_exit, doc_result>>
    /\ UNCHANGED nonDocVars

\* lines 172-174 (com_error), 191-193 (MemoryError), 194-196 (any other
\* exception) for a failing Documents.Open.
DocOpenFails ==
    /\ dpc = "open"
    /\ \E path \in {"open", "memory", "other"} : DocLeaveTry(path)
    /\ UNCHANGED <<is_windows, word, doc, com_initialized, com_tokens>>
    /\ UNCHANGED nonDocVars

\* lines 177-187: doc.SaveAs(..., FileFormat=wdFormatPDF, ...); return True
DocSaveAs ==
    /\ dpc = "save"
    /\ word = "live"
    /\ doc_exit' = "success"
    /\ doc_result' = "true"
    /\ dpc' = "finally_doc"
    /\ UNCHANGED <<is_windows, word, doc, com_initialized, com_tokens>>
    /\ UNCHANGED nonDocVars

\* lines 183-185 (com_error), 191-193 (MemoryError), 194-196 (any other
\* exception) for a failing SaveAs.
DocSaveFails ==
    /\ dpc = "save"
    /\ \E path \in {"save", "memory", "other"} : DocLeaveTry(path)
    /\ UNCHANGED <<is_windows, word, doc, com_initialized, com_tokens>>
    /\ UNCHANGED nonDocVars

\* The Word process ends on its own (crash, killed by the user) while the
\* conversion holds it: its documents go with it and every later call on it
\* raises.
DocWordDies ==
    /\ dpc \in {"visible", "open", "save", "finally_doc", "finally_word"}
    /\ word = "live"
    /\ word' = "dead"
    /\ doc' = IF doc = "open" THEN "closed" ELSE doc
    /\ UNCHANGED <<is_windows, dpc, com_initialized, com_tokens, doc_exit, doc_result>>
    /\ UNCHANGED nonDocVars

\* lines 199-205: doc.Close(SaveChanges=False) when doc is not None; an
\* exception of Close is swallowed and the document stays open.
DocFinallyClose ==
    /\ dpc = "finally_doc"
    /\ IF doc = "open"
       THEN \E closed_ok \in BOOLEAN : doc' = IF closed_ok THEN "closed" ELSE "open"
       ELSE UNCHANGED doc
    /\ dpc' = "finally_word"
    /\ UNCHANGED <<is_windows, word, com_initialized, com_tokens, doc_exit, doc_result>>
    /\ UNCHANGED nonDocVars

\* lines 207-213: word.Quit() when word is not None; Word discards the
\* documents it still has open; an exception of Quit is swallowed and a
\* process that is alive stays, with its documents.
DocFinallyQuit ==
    /\ dpc = "finally_word"
    /\ IF word = "live"
       THEN \E quit_ok \in BOOLEAN :
              IF quit_ok
              THEN /\ word' = "quit"
                   /\ doc' = IF doc = "open" THEN "closed" ELSE doc
              ELSE UNCHANGED <<word, doc>>
       ELSE UNCHANGED <<word, doc>>
    /\ dpc' = "finally_com"
    /\ UNCHANGED <<is_windows, com_initialized, com_tokens, doc_exit, doc_result>>
    /\ UNCHANGED nonDocVars

\* lines 215-219: pythoncom.CoUninitialize() when com_initialized; then the
\* value of the return statement that was pending is returned.
DocFinallyCoUninitialize ==
    /\ dpc = "finally_com"
    /\ com_tokens' = IF com_initialized THEN com_tokens - 1 ELSE com_tokens
    /\ dpc' = "returned"
    /\ UNCHANGED <<is_windows, word, doc, com_initialized, doc_exit, doc_result>>
    /\ UNCHANGED nonDocVars

DocNext ==
    \/ DocNotWindows
    \/ DocEnterTry
    \/ DocImportError
    \/ DocCoInitialize
    \/ DocCoInitializeRaises
    \/ DocDispatch
    \/ DocHideWord
    \/ DocWordStartFails
    \/ DocOpen
    \/ DocOpenFails
    \/ DocSaveAs
    \/ DocSaveFails
    \/ DocWordDies
    \/ DocFinallyClose
    \/ DocFinallyQuit
    \/ DocFinallyCoUninitialize

SpecDoc == DocInit /\ [][DocNext]_vars

(***************************************************************************)
(* FileHandler.validate_file on one path, called again and again, while    *)
(* the file system and the settings change under it.                       *)
(* Sizes are in whole MB. An entry of _validation_cache is kept per mtime  *)
(* of the path; its insertion time is kept as "expired or not". The cache  *)
(* of one path never exceeds CACHE_MAX_SIZE, so lines 154-171 never run.   *)
(***************************************************************************)
SUPPORTED_EXTENSIONS == {".doc", ".docx"}

\* The sizes of the file: small, exactly the initial ceiling, one MB above it.
FileSizes == {MinMaxFileSizeMb, InitialMaxFileSizeMb, InitialMaxFileSizeMb + 1}

\* The values the settings dialog may pass to set_max_file_size.
RequestedMaxSizes == {MinMaxFileSizeMb - 1, InitialMaxFileSizeMb,
                      MaxMaxFileSizeMb + 1}

Min(a, b) == IF a < b THEN a ELSE b

Max(a, b) == IF a > b THEN a ELSE b

\* set_max_file_size line 35: max(1, min(size_mb, 500))
ClampMaxFileSize(requested) ==
    Max(MinMaxFileSizeMb, Min(requested, MaxMaxFileSizeMb))

\* is_word_file line 47
IsWordFile(ext) == ext \in SUPPORTED_EXTENSIONS

\* A size test that also rejects a file of exactly the ceiling.
TooLargeFromCeiling(size) == size >= MAX_FILE_SIZE_MB

\* validate_file line 132: size_mb > FileHandler.MAX_FILE_SIZE_MB
TooLarge(size) == size > MAX_FILE_SIZE_MB

\* Path.stat() line 104, 131, 149: raises when nothing is at the path.
StatRaises == file_system.kind = "missing"

ValInit ==
    /\ MAX_FILE_SIZE_MB = InitialMaxFileSizeMb
    /\ \/ file_system = NoSuchFile
       \/ file_system = [NoSuchFile EXCEPT !.kind = "dir", !.readable = TRUE]
       \/ \E s \in FileSizes, r \in BOOLEAN, i \in BOOLEAN :
             file_system = [kind |-> "file", size |-> s, readable |-> r,
                            intact |-> i, mtime |-> 0]
    /\ suffix \in Extensions
    /\ validation_cache = [m \in Mtimes |-> NoEntry]
    /\ vpc = "idle"
    /\ use_cache = TRUE
    /\ size_mb = 0
    /\ performed = <<>>
    /\ validation = NotValidated
    /\ PoolUnused
    /\ ConvIdle
    /\ BatchIdle
    /\ DocIdle
    /\ JobIdle
    /\ WorkerIdle
    /\ IntegrityIdle
    /\ ImageIdle
    /\ PathIdle
    /\ SingletonIdle
    /\ ConfirmIdle
    /\ EvictIdle

\* return valid, msg from the checks (lines 120, 124, 128, 133, 137, 175).
ValReturn(valid, msg) ==
    /\ validation' = [valid |-> valid, msg |-> msg, from_cache |-> FALSE]
    /\ vpc' = "returned"

\* A call of validate_file(file_path, use_cache) begins (line 91).
ValidateFile(uc) ==
    /\ vpc \in {"idle", "returned", "raised"}
    /\ use_cache' = uc
    /\ size_mb' = 0
    /\ performed' = <<>>
    /\ validation' = NotValidated
    /\ vpc' = IF uc THEN "lookup" ELSE "exists"
    /\ UNCHANGED <<MAX_FILE_SIZE_MB, file_system, suffix, validation_cache>>
    /\ UNCHANGED nonValVars

\* lines 102-116: the cache lookup. A stat() that raises is swallowed; a
\* stored entry within the TTL is returned; an expired one is deleted.
CacheLookup ==
    /\ vpc = "lookup"
    /\ LET entry == validation_cache[file_system.mtime]
       IN  IF StatRaises \/ ~entry.stored
           THEN /\ vpc' = "exists"
                /\ UNCHANGED <<validation_cache, validation>>
           ELSE IF ~entry.expired
           THEN /\ validation' = [valid |-> entry.valid, msg |-> entry.msg,
                                  from_cache |-> TRUE]
                /\ vpc' = "returned"
                /\ UNCHANGED validation_cache
           ELSE /\ validation_cache' =
                       [validation_cache EXCEPT ![file_system.mtime] = NoEntry]
                /\ vpc' = "exists"
                /\ UNCHANGED validation
    /\ UNCHANGED <<MAX_FILE_SIZE_MB, file_system, suffix, use_cache, size_mb,
                   performed>>
    /\ UNCHANGED nonValVars

\* lines 119-120: if not file_path.exists()
CheckExists ==
    /\ vpc = "exists"
    /\ performed' = Append(performed, "exists")
    /\ IF file_system.kind = "missing"
       THEN ValReturn(FALSE, "not_found")
       ELSE vpc' = "is_file" /\ UNCHANGED validation
    /\ UNCHANGED <<MAX_FILE_SIZE_MB, file_system, suffix, validation_cache,
                   use_cache, size_mb>>
    /\ UNCHANGED nonValVars

\* lines 123-124: if not file_path.is_file()
CheckIsFile ==
    /\ vpc = "is_file"
    /\ performed' = Append(performed, "is_file")
    /\ IF file_system.kind # "file"
       THEN ValReturn(FALSE, "not_a_file")
       ELSE vpc' = "extension" /\ UNCHANGED validation
    /\ UNCHANGED <<MAX_FILE_SIZE_MB, file_system, suffix, validation_cache,
                   use_cache, size_mb>>
    /\ UNCHANGED nonValVars

\* lines 127-128: if not FileHandler.is_word_file(file_path)
CheckExtension ==
    /\ vpc = "extension"
    /\ performed' = Append(performed, "extension")
    /\ IF ~IsWordFile(suffix)
       THEN ValReturn(FALSE, "unsupported_extension")
       ELSE vpc' = "size" /\ UNCHANGED validation
    /\ UNCHANGED <<MAX_FILE_SIZE_MB, file_system, suffix, validation_cache,
                   use_cache, size_mb>>
    /\ UNCHANGED nonValVars

\* lines 131-133: size_mb = file_path.stat().st_size / (1024 * 1024), outside
\* any try: the stat() of a path that is gone raises out of validate_file.
CheckSize ==
    /\ vpc = "size"
    /\ performed' = Append(performed, "size")
    /\ IF StatRaises
       THEN /\ vpc' = "raised"
            /\ UNCHANGED <<size_mb, validation>>
       ELSE /\ size_mb' = file_system.size
            /\ IF TooLarge(file_system.size)
               THEN ValReturn(FALSE, "too_large")
               ELSE vpc' = "access" /\ UNCHANGED validation
    /\ UNCHANGED <<MAX_FILE_SIZE_MB, file_system, suffix, validation_cache,
                   use_cache>>
    /\ UNCHANGED nonValVars

\* lines 136-137: if not os.access(file_path, os.R_OK); os.access answers
\* False for a path that is gone.
CheckAccess ==
    /\ vpc = "access"
    /\ performed' = Append(performed, "access")
    /\ IF file_system.kind = "missing" \/ ~file_system.readable
       THEN ValReturn(FALSE, "unreadable")
       ELSE vpc' = "integrity" /\ UNCHANGED validation
    /\ UNCHANGED <<MAX_FILE_SIZE_MB, file_system, suffix, validation_cache,
                   use_cache, size_mb>>
    /\ UNCHANGED nonValVars

\* check_file_integrity lines 188-224: everything is inside its try block; a
\* file that is gone, unreadable or damaged gives (False, reason).
CheckFileIntegrity ==
    IF file_system.kind = "file" /\ file_system.readable /\ file_system.intact
    THEN [valid |-> TRUE, msg |-> "OK", from_cache |-> FALSE]
    ELSE [valid |-> FALSE, msg |-> "corrupt", from_cache |-> FALSE]

\* lines 140-144: result = check_file_integrity(file_path); lines 147, 175:
\* without the cache the result is returned.
CheckIntegrity ==
    /\ vpc = "integrity"
    /\ performed' = Append(performed, "integrity")
    /\ validation' = CheckFileIntegrity
    /\ vpc' = IF use_cache THEN "store" ELSE "returned"
    /\ UNCHANGED <<MAX_FILE_SIZE_MB, file_system, suffix, validation_cache,
                   use_cache, size_mb>>
    /\ UNCHANGED nonValVars

\* lines 147-175: the result is stored under the mtime read now (a stat() that
\* raises is swallowed), then returned.
CacheStore ==
    /\ vpc = "store"
    /\ validation_cache' =
           IF StatRaises THEN validation_cache
           ELSE [validation_cache EXCEPT ![file_system.mtime] =
                    [stored |-> TRUE, valid |-> validation.valid,
                     msg |-> validation.msg, expired |-> FALSE]]
    /\ vpc' = "returned"
    /\ UNCHANGED <<MAX_FILE_SIZE_MB, file_system, suffix, use_cache, size_mb,
                   performed, validation>>
    /\ UNCHANGED nonValVars

\* set_max_file_size lines 29-35, called from the settings (main_window.py
\* lines 86 and 325).
SetMaxFileSize(requested) ==
    /\ MAX_FILE_SIZE_MB' = ClampMaxFileSize(requested)
    /\ MAX_FILE_SIZE_MB' # MAX_FILE_SIZE_MB
    /\ UNCHANGED <<file_system, suffix, validation_cache, vpc, use_cache,
                   size_mb, performed, validation>>
    /\ UNCHANGED nonValVars

\* Environment: the file or directory at the path is deleted.
FileDeleted ==
    /\ file_system.kind # "missing"
    /\ file_system' = NoSuchFile
    /\ UNCHANGED <<MAX_FILE_SIZE_MB, suffix, validation_cache, vpc, use_cache,
                   size_mb, performed, validation>>
    /\ UNCHANGED nonValVars

\* Environment: the read permission of the file is taken away (chmod leaves
\* the mtime as it is).
FileMadeUnreadable ==
    /\ file_system.kind = "file"
    /\ file_system.readable
    /\ file_system' = [file_system EXCEPT !.readable = FALSE]
    /\ UNCHANGED <<MAX_FILE_SIZE_MB, suffix, validation_cache, vpc, use_cache,
                   size_mb, performed, validation>>
    /\ UNCHANGED nonValVars

\* Environment: the file is written again, with a later mtime.
FileRewritten ==
    /\ file_system.kind = "file"
    /\ file_system.mtime < MaxMtime
    /\ \E s \in FileSizes, i \in BOOLEAN :
          file_system' = [file_system EXCEPT !.size = s, !.intact = i,
                                             !.mtime = @ + 1]
    /\ UNCHANGED <<MAX_FILE_SIZE_MB, suffix, validation_cache, vpc, use_cache,
                   size_mb, performed, validation>>
    /\ UNCHANGED nonValVars

\* Environment: CACHE_TTL_SECONDS pass since an entry was stored.
EntryExpires(m) ==
    /\ validation_cache[m].stored
    /\ ~validation_cache[m].expired
    /\ validation_cache' = [validation_cache EXCEPT ![m].expired = TRUE]
    /\ UNCHANGED <<MAX_FILE_SIZE_MB, file_system, suffix, vpc, use_cache,
                   size_mb, performed, validation>>
    /\ UNCHANGED nonValVars

ValNext ==
    \/ \E uc \in BOOLEAN : ValidateFile(uc)
    \/ CacheLookup
    \/ CheckExists
    \/ CheckIsFile
    \/ CheckExtension
    \/ CheckSize
    \/ CheckAccess
    \/ CheckIntegrity
    \/ CacheStore
    \/ \E requested \in RequestedMaxSizes : SetMaxFileSize(requested)
    \/ FileDeleted
    \/ FileMadeUnreadable
    \/ FileRewritten
    \/ \E m \in Mtimes : EntryExpires(m)

SpecValidate == ValInit /\ [][ValNext]_vars

(***************************************************************************)
(* The body of the loop of _perform_conversion (lines 436-498) for one     *)
(* job, with the configuration and the destination directory it finds.     *)
(* A destination file is "none" (absent), "old" (there before the job) or  *)
(* "new" (written by this job). With auto-numbering the numbered path is   *)
(* the first free one.                                                     *)
(***************************************************************************)
\* Free space on both sides of the estimates, in tenths of a MB.
FreeSpaces == {12, 13, 13 * MaxSize - 1, 13 * MaxSize, 200}

\* estimate_pdf_size lines 80-88, in tenths of a MB: word_size_mb * 1.3
EstimatePdfSize(word_size_mb) == word_size_mb * 13

\* estimate_pdf_size line 88: return 10 when stat() raises.
DefaultEstimate == 100

\* check_disk_space lines 59-70: free_mb < required_mb answers False; so does
\* an exception of shutil.disk_usage.
HasSpace(free, required, usage_ok) == usage_ok /\ ~(free < required)

JobInit ==
    /\ auto_number \in BOOLEAN
    /\ ask_overwrite \in BOOLEAN
    /\ output_folder \in BOOLEAN
    /\ \E p \in {"none", "old"} : output_files = [NoOutput EXCEPT !.plain = p]
    /\ jpc = "validate"
    /\ output_path = "none"
    /\ file_status = "converting"
    /\ success_count = 0
    /\ fail_count = 0
    /\ job_processed = FALSE
    /\ job_failed = FALSE
    /\ dispatched = FALSE
    /\ input_size_mb \in 1..MaxSize
    /\ free_tenths \in FreeSpaces
    /\ disk_checked = FALSE
    /\ PoolUnused
    /\ ConvIdle
    /\ BatchIdle
    /\ DocIdle
    /\ ValIdle
    /\ WorkerIdle
    /\ IntegrityIdle
    /\ ImageIdle
    /\ PathIdle
    /\ SingletonIdle
    /\ ConfirmIdle
    /\ EvictIdle

\* lines 448-452, 462-468, 475-480: the status is shown, fail_count += 1,
\* failed_indices.append(i), continue.
RecordFailure(status) ==
    /\ file_status' = status
    /\ fail_count' = fail_count + 1
    /\ job_failed' = TRUE
    /\ jpc' = "next"

\* lines 445-452: validate_file
LoopBodyValidate ==
    /\ jpc = "validate"
    /\ \E is_valid \in BOOLEAN :
          IF ~is_valid
          THEN RecordFailure("invalid")
          ELSE /\ jpc' = "resolve"
               /\ UNCHANGED <<file_status, fail_count, job_failed>>
    /\ UNCHANGED <<auto_number, ask_overwrite, output_folder, output_files,
                   output_path, success_count, job_processed, dispatched,
                   input_size_mb, free_tenths, disk_checked>>
    /\ UNCHANGED nonJobVars

\* get_output_path lines 298-312 as the loop calls it: the plain path, or
\* with auto-numbering and the plain path taken, a numbered one.
GetOutputPath ==
    IF auto_number /\ output_files.plain # "none" THEN "numbered" ELSE "plain"

\* lines 455-468: the destination is resolved; without auto-numbering an
\* existing destination is skipped when ask_overwrite is set.
LoopBodyResolvePath ==
    /\ jpc = "resolve"
    /\ output_path' = GetOutputPath
    /\ IF ~auto_number /\ output_files[output_path'] # "none" /\ ask_overwrite
       THEN RecordFailure("exists")
       ELSE /\ jpc' = "disk"
            /\ UNCHANGED <<file_status, fail_count, job_failed>>
    /\ UNCHANGED <<auto_number, ask_overwrite, output_folder, output_files,
                   success_count, job_processed, dispatched, input_size_mb,
                   free_tenths, disk_checked>>
    /\ UNCHANGED nonJobVars

\* lines 471-480: the disk check, made only when an output folder is set.
LoopBodyCheckDisk ==
    /\ jpc = "disk"
    /\ disk_checked' = output_folder
    /\ \E stat_ok \in BOOLEAN, usage_ok \in BOOLEAN :
          LET estimated_size == IF stat_ok THEN EstimatePdfSize(input_size_mb)
                                           ELSE DefaultEstimate
          IN  IF output_folder /\ ~HasSpace(free_tenths, estimated_size, usage_ok)
              THEN RecordFailure("no_space")
              ELSE /\ jpc' = "convert"
                   /\ UNCHANGED <<file_status, fail_count, job_failed>>
    /\ UNCHANGED <<auto_number, ask_overwrite, output_folder, output_files,
                   output_path, success_count, job_processed, dispatched,
                   input_size_mb, free_tenths>>
    /\ UNCHANGED nonJobVars

\* lines 482-493: convert_to_pdf is called; on success the PDF is at
\* output_path and the index goes to processed_indices, else to
\* failed_indices.
LoopBodyConvert ==
    /\ jpc = "convert"
    /\ dispatched' = TRUE
    /\ \E ok \in BOOLEAN :
          IF ok
          THEN /\ output_files' = [output_files EXCEPT ![output_path] = "new"]
               /\ file_status' = "completed"
               /\ success_count' = success_count + 1
               /\ job_processed' = TRUE
               /\ jpc' = "next"
               /\ UNCHANGED <<fail_count, job_failed>>
          ELSE /\ RecordFailure("failed")
               /\ UNCHANGED <<output_files, success_count, job_processed>>
    /\ UNCHANGED <<auto_number, ask_overwrite, output_folder, output_path,
                   input_size_mb, free_tenths, disk_checked>>
    /\ UNCHANGED nonJobVars

JobNext ==
    \/ LoopBodyValidate
    \/ LoopBodyResolvePath
    \/ LoopBodyCheckDisk
    \/ LoopBodyConvert

SpecJob == JobInit /\ [][JobNext]_vars

(***************************************************************************)
(* MainWindow: the file list as a list of files, the handlers of the       *)
(* interface thread and the conversion thread that iterates over the list. *)
(* A job is one step of the thread; its outcome matters here only as       *)
(* "recorded", "recorded and the save of line 498 reached" or "raised".    *)
(***************************************************************************)
WorkerInit ==
    /\ WorkerIdle
    /\ PoolUnused
    /\ ConvIdle
    /\ BatchIdle
    /\ DocIdle
    /\ ValIdle
    /\ JobIdle
    /\ IntegrityIdle
    /\ ImageIdle
    /\ PathIdle
    /\ SingletonIdle
    /\ ConfirmIdle
    /\ EvictIdle

\* list.remove(file_path) line 271: the list without its k-th entry.
RemoveAt(list, k) ==
    SubSeq(list, 1, k - 1) \o SubSeq(list, k + 1, Len(list))

\* An _on_convert that does not look at is_converting.
NeverAlreadyConverting == FALSE

\* _on_convert line 382: if self.is_converting
AlreadyConverting == is_converting

\* _add_files lines 260-266 with one file that is not in the list.
AddFiles ==
    /\ added < MaxFiles
    /\ added' = added + 1
    /\ files_list' = Append(files_list, added + 1)
    /\ UNCHANGED <<is_converting, stop_flag, convert_command, alive_workers,
                   wpc, enum_index, current_file, handled, started_with,
                   checkpoint, finish_pending>>
    /\ UNCHANGED nonWorkerVars

\* _remove_file lines 268-274: the remove button of the k-th row; the rows
\* stay enabled while a batch runs.
RemoveFileAt(k) ==
    /\ k \in 1..Len(files_list)
    /\ files_list' = RemoveAt(files_list, k)
    /\ UNCHANGED <<added, is_converting, stop_flag, convert_command,
                   alive_workers, wpc, enum_index, current_file, handled,
                   started_with, checkpoint, finish_pending>>
    /\ UNCHANGED nonWorkerVars

\* _on_clear lines 276-281; set_converting_state (control_panel.py line 170)
\* disables the button from line 402 to line 513.
ClearFiles ==
    /\ ~is_converting
    /\ files_list # <<>>
    /\ files_list' = <<>>
    /\ UNCHANGED <<added, is_converting, stop_flag, convert_command,
                   alive_workers, wpc, enum_index, current_file, handled,
                   started_with, checkpoint, finish_pending>>
    /\ UNCHANGED nonWorkerVars

\* _on_convert lines 373-409: nothing happens for an empty list, for a batch
\* in progress and when the user answers no; else the flags are set, the
\* button is given _on_stop_conversion and the thread is started (the locals
\* of lines 424-428 and the iterator of line 432 are initialized).
OnConvertCalled ==
    /\ files_list # <<>>
    /\ ~AlreadyConverting
    /\ \E result \in BOOLEAN : result
    /\ convert_command' = "_on_stop_conversion"
    /\ is_converting' = TRUE
    /\ stop_flag' = FALSE
    /\ alive_workers' = alive_workers + 1
    /\ wpc' = "head"
    /\ enum_index' = 0
    /\ current_file' = 0
    /\ handled' = <<>>
    /\ started_with' = files_list
    /\ UNCHANGED <<files_list, added, checkpoint, finish_pending>>
    /\ UNCHANGED nonWorkerVars

\* _on_stop_conversion lines 411-420, reached through the convert button
\* while it carries that handler, the user answering yes.
OnStopConversionCalled ==
    /\ convert_command = "_on_stop_conversion"
    /\ ~stop_flag
    /\ stop_flag' = TRUE
    /\ UNCHANGED <<files_list, added, is_converting, convert_command,
                   alive_workers, wpc, enum_index, current_file, handled,
                   started_with, checkpoint, finish_pending>>
    /\ UNCHANGED nonWorkerVars

\* lines 432-434: the list iterator yields the entry at its index, if the
\* list as it is now has one, and the stop flag is not set.
WorkerNextJob ==
    /\ wpc = "head"
    /\ ~stop_flag
    /\ enum_index < Len(files_list)
    /\ current_file' = files_list[enum_index + 1]
    /\ enum_index' = enum_index + 1
    /\ wpc' = "body"
    /\ UNCHANGED <<files_list, added, is_converting, stop_flag, convert_command,
                   alive_workers, handled, started_with, checkpoint,
                   finish_pending>>
    /\ UNCHANGED nonWorkerVars

\* lines 436-498: the job is recorded under its index; when the index is the
\* fifth, tenth, ... and the job got as far as line 497, save_state stores
\* self.files_list as it is now with the indices recorded so far.
WorkerJobDone ==
    /\ wpc = "body"
    /\ handled' = Append(handled, current_file)
    /\ \E reaches_save \in BOOLEAN :
          IF reaches_save /\ enum_index % CheckpointEvery = 0
          THEN checkpoint' = [saved |-> TRUE, files |-> files_list,
                              count |-> enum_index]
          ELSE UNCHANGED checkpoint
    /\ current_file' = 0
    /\ wpc' = "head"
    /\ UNCHANGED <<files_list, added, is_converting, stop_flag, convert_command,
                   alive_workers, enum_index, started_with, finish_pending>>
    /\ UNCHANGED nonWorkerVars

\* lines 436-498 raising (see JobRaises): the thread ends, lines 500-505 do
\* not run.
WorkerJobRaises ==
    /\ wpc = "body"
    /\ wpc' = "raised"
    /\ current_file' = 0
    /\ alive_workers' = alive_workers - 1
    /\ UNCHANGED <<files_list, added, is_converting, stop_flag, convert_command,
                   enum_index, handled, started_with, checkpoint,
                   finish_pending>>
    /\ UNCHANGED nonWorkerVars

\* lines 432-434 and 500-505: the iterator is exhausted or the stop flag is
\* seen; clear_state removes the recovery file, _finish_conversion is queued
\* for the interface thread and the thread ends.
WorkerLoopEnds ==
    /\ wpc = "head"
    /\ stop_flag \/ enum_index >= Len(files_list)
    /\ checkpoint' = NoSavedList
    /\ finish_pending' = TRUE
    /\ wpc' = "ended"
    /\ alive_workers' = alive_workers - 1
    /\ UNCHANGED <<files_list, added, is_converting, stop_flag, convert_command,
                   enum_index, current_file, handled, started_with>>
    /\ UNCHANGED nonWorkerVars

\* _finish_conversion lines 507-514, run by the interface thread.
FinishConversion ==
    /\ finish_pending
    /\ finish_pending' = FALSE
    /\ is_converting' = FALSE
    /\ convert_command' = "_on_convert"
    /\ wpc' = "none"
    /\ enum_index' = 0
    /\ handled' = <<>>
    /\ started_with' = <<>>
    /\ UNCHANGED <<files_list, added, stop_flag, alive_workers, current_file,
                   checkpoint>>
    /\ UNCHANGED nonWorkerVars

WorkerNext ==
    \/ AddFiles
    \/ \E k \in 1..MaxFiles : RemoveFileAt(k)
    \/ ClearFiles
    \/ OnConvertCalled
    \/ OnStopConversionCalled
    \/ WorkerNextJob
    \/ WorkerJobDone
    \/ WorkerJobRaises
    \/ WorkerLoopEnds
    \/ FinishConversion

SpecWorker == WorkerInit /\ [][WorkerNext]_vars

\* The conversion thread, once started, keeps being scheduled, and the
\* interface thread runs the callbacks queued with root.after().
SpecWorkerFair ==
    /\ WorkerInit
    /\ [][WorkerNext]_vars
    /\ WF_vars(WorkerNextJob)
    /\ WF_vars(WorkerJobDone \/ WorkerJobRaises)
    /\ WF_vars(WorkerLoopEnds)
    /\ WF_vars(FinishConversion)

(***************************************************************************)
(* FileHandler.check_file_integrity as a function of the file it is given: *)
(* the suffix as written, the bytes of the file, whether open() succeeds,  *)
(* what zipfile.is_zipfile says, whether zipfile.ZipFile opens the archive *)
(* (else BadZipFile), the entries of the archive and whether               *)
(* word/document.xml can be read.                                          *)
(***************************************************************************)
HeaderBytes == 8

\* line 215: b'\xD0\xCF\x11\xE0\xA1\xB1\x1A\xE1'
OleSignature == <<208, 207, 17, 224, 161, 177, 26, 225>>

\* A check that asks for the content-types entry only.
OnlyContentTypes == <<"[Content_Types].xml">>

\* line 195: required_files
RequiredFiles == <<"[Content_Types].xml", "word/document.xml">>

\* File contents: every prefix of the signature, the signature with one byte
\* replaced, and each of these followed by one more byte.
SignatureLike ==
    {SubSeq(OleSignature, 1, n) : n \in 0..HeaderBytes}
        \cup {[OleSignature EXCEPT ![k] = 0] : k \in 1..HeaderBytes}

Contents == SignatureLike \cup {Append(c, 0) : c \in SignatureLike}

ArchiveNames == {"[Content_Types].xml", "word/document.xml", "word/styles.xml"}

Documents ==
    {[suffix |-> sx, content |-> c, openable |-> o, is_zip |-> FALSE,
      opens |-> FALSE, names |-> {}, body_ok |-> FALSE] :
        sx \in {".doc", ".Doc", ".txt", ".TXT"}, c \in Contents, o \in BOOLEAN}
    \cup
    {[suffix |-> sx, content |-> <<80, 75>>, openable |-> o, is_zip |-> z,
      opens |-> a, names |-> n, body_ok |-> b] :
        sx \in {".docx", ".DOCX"}, o \in BOOLEAN, z \in BOOLEAN,
        a \in BOOLEAN, n \in SUBSET ArchiveNames, b \in BOOLEAN}

\* f.read(8), line 213.
ReadHeader(f) ==
    SubSeq(f.content, 1, Min(HeaderBytes, Len(f.content)))

\* lines 198-200: the first required entry that is not in namelist(), or
\* "none".
FirstMissing(f) ==
    LET missing == {k \in 1..Len(RequiredFiles) : RequiredFiles[k] \notin f.names}
    IN  IF missing = {}
        THEN "none"
        ELSE RequiredFiles[CHOOSE k \in missing : \A j \in missing : k <= j]

\* check_file_integrity lines 187-224.
check_file_integrity(f) ==
    LET ext == SuffixLower(f.suffix)
        Bad(m) == [valid |-> FALSE, msg |-> m]
    IN  IF ext = ".docx"
        THEN IF ~f.is_zip THEN Bad("corrupt")
             ELSE IF ~f.openable THEN Bad("no access")
             ELSE IF ~f.opens THEN Bad("invalid zip")
             ELSE IF FirstMissing(f) # "none" THEN Bad(FirstMissing(f))
             ELSE IF ~f.body_ok THEN Bad("unreadable content")
             ELSE [valid |-> TRUE, msg |-> "OK"]
        ELSE IF ext = ".doc"
        THEN IF ~f.openable THEN Bad("no access")
             ELSE IF Len(ReadHeader(f)) < HeaderBytes
                     \/ SubSeq(ReadHeader(f), 1, HeaderBytes) # OleSignature
                  THEN Bad("corrupt or not DOC")
                  ELSE [valid |-> TRUE, msg |-> "OK"]
        ELSE [valid |-> TRUE, msg |-> "OK"]

IntegrityInit ==
    /\ integrity_file \in Documents
    /\ ipc = "called"
    /\ integrity = NotChecked
    /\ PoolUnused
    /\ ConvIdle
    /\ BatchIdle
    /\ DocIdle
    /\ ValIdle
    /\ JobIdle
    /\ WorkerIdle
    /\ ImageIdle
    /\ PathIdle
    /\ SingletonIdle
    /\ ConfirmIdle
    /\ EvictIdle

CallCheckFileIntegrity ==
    /\ ipc = "called"
    /\ integrity' = check_file_integrity(integrity_file)
    /\ ipc' = "returned"
    /\ UNCHANGED integrity_file
    /\ UNCHANGED nonIntegrityVars

IntegrityNext == CallCheckFileIntegrity

SpecIntegrity == IntegrityInit /\ [][IntegrityNext]_vars

(***************************************************************************)
(* DocConverter._compress_pdf, lines 256-383: what is done with one image  *)
(* of the PDF at the configured level.  An image is its mode, its /Filter, *)
(* its width and its height.                                               *)
(***************************************************************************)
\* Widths and heights on both sides of every threshold of lines 300-315.
Dimensions == {1000, 1001, 1200, 1201, 1400, 1401, 1600, 1601, 2000, 2001}

\* "P" stands for the modes that neither branch of lines 286 and 348 takes.
ImageModes == {"RGB", "CMYK", "RGBA", "P"}

\* line 342: if compression_level >= 3 or len(output.getvalue()) < len(raw_image)
ReplacesOpaque(level, smaller) == level >= 3 \/ smaller

\* lines 348-379: from level 5 on the flattened JPEG always replaces the
\* stream (line 367); below, the PNG replaces it only when it is smaller
\* (line 372).
ReplacesTransparent(level, smaller) == level >= 5 \/ smaller

ImageFilters == {"none", "/FlateDecode", "/DCTDecode"}

\* lines 288-315: should_resize
ShouldResize(level, width, height) ==
    CASE level \in 1..4 -> FALSE
      [] level = 5 -> width > 2000 \/ height > 2000
      [] level = 6 -> width > 1600 \/ height > 1600
      [] level = 7 -> width > 1400 \/ height > 1400
      [] level = 8 -> width > 1200 \/ height > 1200
      [] OTHER -> width > 1000 \/ height > 1000

\* A thumbnail size that is the default of the lookup for every level.
ThumbnailMaxSizeDefault(level) == 2000

\* lines 319-321: max_size = {5: 2000, 6: 1600, 7: 1400, 8: 1200,
\* 9: 1000}.get(compression_level, 2000)
ThumbnailMaxSize(level) ==
    CASE level = 5 -> 2000
      [] level = 6 -> 1600
      [] level = 7 -> 1400
      [] level = 8 -> 1200
      [] level = 9 -> 1000
      [] OTHER -> 2000

\* line 356: the quality for an image with transparency, levels 5 and above.
RgbaQuality(level) ==
    IF level = 9 THEN 45
    ELSE IF level = 8 THEN 55
    ELSE IF level = 7 THEN 65
    ELSE IF level = 6 THEN 75
    ELSE 80

\* A decision that takes up every stream from level 2 on.
ShouldCompressAny(level, filter) == level >= 2

\* lines 269-270: should_compress
ShouldCompress(level, filter) ==
    level >= 3 \/ filter \in {"none", "/FlateDecode"}

ImageInit ==
    /\ img_level \in ConfiguredLevels
    /\ \E m \in ImageModes, f \in ImageFilters, w \in Dimensions, h \in Dimensions :
          img = [mode |-> m, filter |-> f, width |-> w, height |-> h]
    /\ img_pc = "found"
    /\ img_out = NoImageOutput
    /\ PoolUnused
    /\ ConvIdle
    /\ BatchIdle
    /\ DocIdle
    /\ ValIdle
    /\ JobIdle
    /\ WorkerIdle
    /\ IntegrityIdle
    /\ PathIdle
    /\ SingletonIdle
    /\ ConfirmIdle
    /\ EvictIdle

\* lines 259-261 and 269-272: level 1 and, at level 2, an image that is
\* already compressed are left as they are.
ImageSkipped ==
    /\ img_pc = "found"
    /\ img_level = 1 \/ ~ShouldCompress(img_level, img.filter)
    /\ img_out' = [NoImageOutput EXCEPT !.format = "skipped"]
    /\ img_pc' = "done"
    /\ UNCHANGED <<img_level, img>>
    /\ UNCHANGED nonImageVars

\* lines 279-325: a colour or grey image (CMYK is converted to RGB first) is
\* reduced by thumbnail() when should_resize and saved as JPEG.
ImageSavedAsJpeg ==
    /\ img_pc = "found"
    /\ img_level # 1 /\ ShouldCompress(img_level, img.filter)
    /\ img.mode \in {"RGB", "CMYK"}
    /\ \E smaller \in BOOLEAN :
          LET resize == ShouldResize(img_level, img.width, img.height)
              side == Max(img.width, img.height)
          IN  img_out' = [format |-> "JPEG",
                          quality |-> JpegQuality(img_level),
                          resized |-> resize,
                          max_side |-> IF resize
                                       THEN Min(side, ThumbnailMaxSize(img_level))
                                       ELSE side,
                          smaller |-> smaller,
                          replaced |-> ReplacesOpaque(img_level, smaller)]
    /\ img_pc' = "done"
    /\ UNCHANGED <<img_level, img>>
    /\ UNCHANGED nonImageVars

\* lines 348-378: an image with transparency is flattened and saved as JPEG
\* from level 5 on, and saved as PNG below.
ImageWithTransparency ==
    /\ img_pc = "found"
    /\ img_level # 1 /\ ShouldCompress(img_level, img.filter)
    /\ img.mode = "RGBA"
    /\ \E smaller \in BOOLEAN :
          img_out' = [format |-> IF img_level >= 5 THEN "JPEG" ELSE "PNG",
                      quality |-> IF img_level >= 5 THEN RgbaQuality(img_level) ELSE 0,
                      resized |-> FALSE,
                      max_side |-> Max(img.width, img.height),
                      smaller |-> smaller,
                      replaced |-> ReplacesTransparent(img_level, smaller)]
    /\ img_pc' = "done"
    /\ UNCHANGED <<img_level, img>>
    /\ UNCHANGED nonImageVars

\* lines 275-381: Image.open or a later statement raises, or the mode is one
\* that neither branch takes; the exception is swallowed and the stream
\* stays as it is.
ImageLeftAsItIs ==
    /\ img_pc = "found"
    /\ img_level # 1 /\ ShouldCompress(img_level, img.filter)
    /\ img_out' = [NoImageOutput EXCEPT !.format = "unchanged",
                                        !.max_side = Max(img.width, img.height)]
    /\ img_pc' = "done"
    /\ UNCHANGED <<img_level, img>>
    /\ UNCHANGED nonImageVars

ImageNext ==
    \/ ImageSkipped
    \/ ImageLeftAsItIs
    \/ ImageSavedAsJpeg
    \/ ImageWithTransparency

SpecImage == ImageInit /\ [][ImageNext]_vars

(***************************************************************************)
(* FileHandler.get_output_path, lines 294-314, one statement of the loop   *)
(* per step.  The files of the destination directory do not change during  *)
(* the call.                                                               *)
(***************************************************************************)
PathNames == 0..MaxNumbered

\* lines 294-299: '<stem>.pdf' in output_dir or beside the input.
PlainPath == 0

\* lines 309-310: parent_dir / f"{base_name} ({counter}){extension}", with
\* base_name the stem of the plain path.
NumberedPath(counter) == counter

\* A test of the first path only.
PlainPathExists == gp_output_path = PlainPath /\ PlainPath \in gp_existing

\* lines 302 and 308: output_path.exists()
OutputPathExists == gp_output_path \in gp_existing

PathInit ==
    /\ gp_auto_number \in BOOLEAN
    /\ gp_output_dir \in BOOLEAN
    /\ gp_existing \in SUBSET PathNames
    /\ gp_output_path = NoPath
    /\ gp_counter = 0
    /\ gpc = "called"
    /\ PoolUnused
    /\ ConvIdle
    /\ BatchIdle
    /\ DocIdle
    /\ ValIdle
    /\ JobIdle
    /\ WorkerIdle
    /\ IntegrityIdle
    /\ ImageIdle
    /\ SingletonIdle
    /\ ConfirmIdle
    /\ EvictIdle

\* lines 294-306: the plain path; with auto_number and the path existing,
\* counter = 1 and the loop is entered, else the plain path is returned.
OutputPathPlain ==
    /\ gpc = "called"
    /\ gp_output_path' = PlainPath
    /\ IF gp_auto_number /\ PlainPath \in gp_existing
       THEN /\ gp_counter' = 1
            /\ gpc' = "loop"
       ELSE /\ gpc' = "returned"
            /\ UNCHANGED gp_counter
    /\ UNCHANGED <<gp_auto_number, gp_output_dir, gp_existing>>
    /\ UNCHANGED nonPathVars

\* lines 308-311: the body of the while loop.
OutputPathNumbered ==
    /\ gpc = "loop"
    /\ OutputPathExists
    /\ gp_output_path' = NumberedPath(gp_counter)
    /\ gp_counter' = gp_counter + 1
    /\ UNCHANGED <<gp_auto_number, gp_output_dir, gp_existing, gpc>>
    /\ UNCHANGED nonPathVars

\* lines 308 and 313: the loop ends, return output_path.
OutputPathReturn ==
    /\ gpc = "loop"
    /\ ~OutputPathExists
    /\ gpc' = "returned"
    /\ UNCHANGED <<gp_auto_number, gp_output_dir, gp_existing, gp_output_path,
                   gp_counter>>
    /\ UNCHANGED nonPathVars

PathNext ==
    \/ OutputPathPlain
    \/ OutputPathNumbered
    \/ OutputPathReturn

SpecPath == PathInit /\ [][PathNext]_vars

(***************************************************************************)
(* word_pool.py lines 224-256: the global pool, read without the lock and  *)
(* written under _pool_lock, called by several threads.                    *)
(***************************************************************************)
SingletonInit ==
    /\ SingletonIdle
    /\ PoolUnused
    /\ ConvIdle
    /\ BatchIdle
    /\ DocIdle
    /\ ValIdle
    /\ JobIdle
    /\ WorkerIdle
    /\ IntegrityIdle
    /\ ImageIdle
    /\ PathIdle
    /\ ConfirmIdle
    /\ EvictIdle

\* get_word_pool line 240: if _global_word_pool is None, read without the
\* lock.
GetPoolCheck(t) ==
    /\ spc[t] = "idle"
    /\ spc' = [spc EXCEPT ![t] = IF global_word_pool = 0 THEN "get_lock"
                                                         ELSE "get_return"]
    /\ UNCHANGED <<global_word_pool, pool_lock, created_pools, closed_pools,
                   got_pool>>
    /\ UNCHANGED nonSingletonVars

\* line 241: with _pool_lock
GetPoolLock(t) ==
    /\ spc[t] = "get_lock"
    /\ pool_lock = 0
    /\ pool_lock' = t
    /\ spc' = [spc EXCEPT ![t] = "get_create"]
    /\ UNCHANGED <<global_word_pool, created_pools, closed_pools, got_pool>>
    /\ UNCHANGED nonSingletonVars

\* lines 242-243: the second test and WordPool(pool_size=pool_size), then
\* the lock is released.
GetPoolCreate(t) ==
    /\ spc[t] = "get_create"
    /\ IF global_word_pool = 0
       THEN /\ created_pools < MaxPools
            /\ created_pools' = created_pools + 1
            /\ global_word_pool' = created_pools + 1
       ELSE UNCHANGED <<created_pools, global_word_pool>>
    /\ pool_lock' = 0
    /\ spc' = [spc EXCEPT ![t] = "get_return"]
    /\ UNCHANGED <<closed_pools, got_pool>>
    /\ UNCHANGED nonSingletonVars

\* line 245: return _global_word_pool, read again without the lock.
GetPoolReturn(t) ==
    /\ spc[t] = "get_return"
    /\ got_pool' = [got_pool EXCEPT ![t] = global_word_pool]
    /\ spc' = [spc EXCEPT ![t] = "idle"]
    /\ UNCHANGED <<global_word_pool, pool_lock, created_pools, closed_pools>>
    /\ UNCHANGED nonSingletonVars

\* close_global_pool line 252: if _global_word_pool is not None, read
\* without the lock; when it is None the call returns.
ClosePoolCheck(t) ==
    /\ spc[t] = "idle"
    /\ global_word_pool # 0
    /\ spc' = [spc EXCEPT ![t] = "close_lock"]
    /\ UNCHANGED <<global_word_pool, pool_lock, created_pools, closed_pools,
                   got_pool>>
    /\ UNCHANGED nonSingletonVars

\* line 253: with _pool_lock
ClosePoolLock(t) ==
    /\ spc[t] = "close_lock"
    /\ pool_lock = 0
    /\ pool_lock' = t
    /\ spc' = [spc EXCEPT ![t] = "close_close"]
    /\ UNCHANGED <<global_word_pool, created_pools, closed_pools, got_pool>>
    /\ UNCHANGED nonSingletonVars

\* lines 254-255: the second test and _global_word_pool.close(); when the
\* global is None by now the lock is released.
ClosePoolClose(t) ==
    /\ spc[t] = "close_close"
    /\ IF global_word_pool # 0
       THEN /\ closed_pools' = closed_pools \cup {global_word_pool}
            /\ spc' = [spc EXCEPT ![t] = "close_clear"]
            /\ UNCHANGED pool_lock
       ELSE /\ pool_lock' = 0
            /\ spc' = [spc EXCEPT ![t] = "idle"]
            /\ UNCHANGED closed_pools
    /\ UNCHANGED <<global_word_pool, created_pools, got_pool>>
    /\ UNCHANGED nonSingletonVars

\* line 256: _global_word_pool = None, then the lock is released.
ClosePoolClear(t) ==
    /\ spc[t] = "close_clear"
    /\ global_word_pool' = 0
    /\ pool_lock' = 0
    /\ spc' = [spc EXCEPT ![t] = "idle"]
    /\ UNCHANGED <<created_pools, closed_pools, got_pool>>
    /\ UNCHANGED nonSingletonVars

SingletonNext ==
    \/ \E t \in Threads : GetPoolCheck(t)
    \/ \E t \in Threads : GetPoolLock(t)
    \/ \E t \in Threads : GetPoolCreate(t)
    \/ \E t \in Threads : GetPoolReturn(t)
    \/ \E t \in Threads : ClosePoolCheck(t)
    \/ \E t \in Threads : ClosePoolLock(t)
    \/ \E t \in Threads : ClosePoolClose(t)
    \/ \E t \in Threads : ClosePoolClear(t)

SpecSingleton == SingletonInit /\ [][SingletonNext]_vars

(***************************************************************************)
(* main_window_old.py lines 782-912: the worker of the older batch variant *)
(* and the interface thread that runs the ask_user callbacks.  The lists   *)
(* made at line 843 are told apart by the job they were made for; the      *)
(* nested function ask_user reads the names overwrite_result and           *)
(* output_path of the enclosing call when it runs, not when it is made.    *)
(***************************************************************************)
ConfirmInit ==
    /\ old_i = 1
    /\ opc = "loop"
    /\ old_stop_conversion = FALSE
    /\ old_exists \in [OldJobs -> BOOLEAN]
    /\ old_ask_overwrite \in BOOLEAN
    /\ overwrite_result = [j \in OldJobs |-> FALSE]
    /\ overwrite_bound = 0
    /\ old_output_path = 0
    /\ after_queue = 0
    /\ dialog_about = 0
    /\ answered_yes = {}
    /\ asked_converted = {}
    /\ PoolUnused
    /\ ConvIdle
    /\ BatchIdle
    /\ DocIdle
    /\ ValIdle
    /\ JobIdle
    /\ WorkerIdle
    /\ IntegrityIdle
    /\ ImageIdle
    /\ PathIdle
    /\ SingletonIdle
    /\ EvictIdle

OldAsks == old_ask_overwrite /\ old_exists[old_i]

\* lines 798-801: the stop flag is seen at the top of the loop.
OldLoopStopped ==
    /\ opc = "loop"
    /\ old_i <= MaxOldJobs
    /\ old_stop_conversion
    /\ opc' = "finished"
    /\ UNCHANGED <<old_i, old_stop_conversion, old_exists, old_ask_overwrite,
                   overwrite_result, overwrite_bound, old_output_path,
                   after_queue, dialog_about, answered_yes, asked_converted>>
    /\ UNCHANGED nonConfirmVars

\* lines 814-821: validation fails, the job is counted as failed.
OldValidationFails ==
    /\ opc = "loop"
    /\ old_i <= MaxOldJobs
    /\ ~old_stop_conversion
    /\ old_i' = old_i + 1
    /\ UNCHANGED <<opc, old_stop_conversion, old_exists, old_ask_overwrite,
                   overwrite_result, overwrite_bound, old_output_path,
                   after_queue, dialog_about, answered_yes, asked_converted>>
    /\ UNCHANGED nonConfirmVars

\* lines 825-837: the path is computed, the disk has no room.
OldDiskFails ==
    /\ opc = "loop"
    /\ old_i <= MaxOldJobs
    /\ ~old_stop_conversion
    /\ old_output_path' = old_i
    /\ old_i' = old_i + 1
    /\ UNCHANGED <<opc, old_stop_conversion, old_exists, old_ask_overwrite,
                   overwrite_result, overwrite_bound, after_queue,
                   dialog_about, answered_yes, asked_converted>>
    /\ UNCHANGED nonConfirmVars

\* lines 825-853: the path is computed; when the question is to be asked a
\* new list [False] is bound to overwrite_result and ask_user is queued.
OldAskOrConvert ==
    /\ opc = "loop"
    /\ old_i <= MaxOldJobs
    /\ ~old_stop_conversion
    /\ old_output_path' = old_i
    /\ IF OldAsks
       THEN /\ overwrite_bound' = old_i
            /\ overwrite_result' = [overwrite_result EXCEPT ![old_i] = FALSE]
            /\ after_queue' = after_queue + 1
            /\ opc' = "waiting"
       ELSE /\ opc' = "convert"
            /\ UNCHANGED <<overwrite_bound, overwrite_result, after_queue>>
    /\ UNCHANGED <<old_i, old_stop_conversion, old_exists, old_ask_overwrite,
                   dialog_about, answered_yes, asked_converted>>
    /\ UNCHANGED nonConfirmVars

\* lines 859-861: a poll sees the answer or the stop flag.
OldPollBreaks ==
    /\ opc = "waiting"
    /\ overwrite_result[overwrite_bound] \/ old_stop_conversion
    /\ opc' = "decide"
    /\ UNCHANGED <<old_i, old_stop_conversion, old_exists, old_ask_overwrite,
                   overwrite_result, overwrite_bound, old_output_path,
                   after_queue, dialog_about, answered_yes, asked_converted>>
    /\ UNCHANGED nonConfirmVars

\* lines 857-863: waited reaches timeout.
OldWaitTimesOut ==
    /\ opc = "waiting"
    /\ opc' = "decide"
    /\ UNCHANGED <<old_i, old_stop_conversion, old_exists, old_ask_overwrite,
                   overwrite_result, overwrite_bound, old_output_path,
                   after_queue, dialog_about, answered_yes, asked_converted>>
    /\ UNCHANGED nonConfirmVars

\* lines 865-869: without a yes the job is skipped.
OldDecide ==
    /\ opc = "decide"
    /\ IF overwrite_result[overwrite_bound]
       THEN /\ opc' = "convert"
            /\ UNCHANGED old_i
       ELSE /\ opc' = "loop"
            /\ old_i' = old_i + 1
    /\ UNCHANGED <<old_stop_conversion, old_exists, old_ask_overwrite,
                   overwrite_result, overwrite_bound, old_output_path,
                   after_queue, dialog_about, answered_yes, asked_converted>>
    /\ UNCHANGED nonConfirmVars

\* lines 872-901: convert_to_pdf writes the destination.
OldConvert ==
    /\ opc = "convert"
    /\ asked_converted' = IF OldAsks THEN asked_converted \cup {old_i}
                                     ELSE asked_converted
    /\ old_i' = old_i + 1
    /\ opc' = "loop"
    /\ UNCHANGED <<old_stop_conversion, old_exists, old_ask_overwrite,
                   overwrite_result, overwrite_bound, old_output_path,
                   after_queue, dialog_about, answered_yes>>
    /\ UNCHANGED nonConfirmVars

\* lines 903-912: the loop is over.
OldLoopEnds ==
    /\ opc = "loop"
    /\ old_i > MaxOldJobs
    /\ opc' = "finished"
    /\ UNCHANGED <<old_i, old_stop_conversion, old_exists, old_ask_overwrite,
                   overwrite_result, overwrite_bound, old_output_path,
                   after_queue, dialog_about, answered_yes, asked_converted>>
    /\ UNCHANGED nonConfirmVars

\* lines 845-850: the interface thread runs a queued ask_user; the question
\* names output_path as it is bound now.  The dialog is modal.
AskUserRuns ==
    /\ after_queue > 0
    /\ dialog_about = 0
    /\ after_queue' = after_queue - 1
    /\ dialog_about' = old_output_path
    /\ UNCHANGED <<old_i, opc, old_stop_conversion, old_exists,
                   old_ask_overwrite, overwrite_result, overwrite_bound,
                   old_output_path, answered_yes, asked_converted>>
    /\ UNCHANGED nonConfirmVars

\* line 851: the answer is stored in the list overwrite_result is bound to
\* now.
UserAnswers(result) ==
    /\ dialog_about # 0
    /\ overwrite_result' = [overwrite_result EXCEPT ![overwrite_bound] = result]
    /\ answered_yes' = IF result THEN answered_yes \cup {dialog_about}
                                 ELSE answered_yes
    /\ dialog_about' = 0
    /\ UNCHANGED <<old_i, opc, old_stop_conversion, old_exists,
                   old_ask_overwrite, overwrite_bound, old_output_path,
                   after_queue, asked_converted>>
    /\ UNCHANGED nonConfirmVars

\* lines 771-780: the user confirms the stop while the batch runs and no
\* question is on screen.
OldOnStopConversion ==
    /\ opc \notin {"idle", "finished"}
    /\ dialog_about = 0
    /\ ~old_stop_conversion
    /\ old_stop_conversion' = TRUE
    /\ UNCHANGED <<old_i, opc, old_exists, old_ask_overwrite,
                   overwrite_result, overwrite_bound, old_output_path,
                   after_queue, dialog_about, answered_yes, asked_converted>>
    /\ UNCHANGED nonConfirmVars

ConfirmNext ==
    \/ OldLoopStopped
    \/ OldValidationFails
    \/ OldDiskFails
    \/ OldAskOrConvert
    \/ OldPollBreaks
    \/ OldWaitTimesOut
    \/ OldDecide
    \/ OldConvert
    \/ OldLoopEnds
    \/ AskUserRuns
    \/ \E result \in BOOLEAN : UserAnswers(result)
    \/ OldOnStopConversion

SpecConfirm == ConfirmInit /\ [][ConfirmNext]_vars

(***************************************************************************)
(* file_handler.py lines 101-175: the class-level dict _validation_cache   *)
(* as callers of validate_file read, fill and trim it.  The dict has no    *)
(* lock; each caller runs the statements below one at a time.  Times are   *)
(* numbered in the order time.time() returned them.                        *)
(***************************************************************************)
CachedKeys == {k \in CacheKeys : cache_entries[k] # 0}

CacheLen == Cardinality(CachedKeys)

RECURSIVE KeysByTime(_)
KeysByTime(S) ==
    IF S = {} THEN <<>>
    ELSE LET first == CHOOSE k \in S :
                          \A other \in S : cache_entries[k] <= cache_entries[other]
         IN  <<first>> \o KeysByTime(S \ {first})

\* lines 157-160: current_time - v[2] > CACHE_TTL_SECONDS
ExpiredKeys(now) == {k \in CachedKeys : cache_entries[k] < now}

\* lines 166-169: sorted by stored time, the first CACHE_MAX_SIZE // 2
OldestKeys == SubSeq(KeysByTime(CachedKeys), 1,
                     Min(CacheMaxSize \div 2, CacheLen))

\* line 175 and the returns before it: the locals of the call are gone.
EvictReturn(t) ==
    /\ epc' = [epc EXCEPT ![t] = "idle"]
    /\ ekey' = [ekey EXCEPT ![t] = 0]
    /\ iter_size' = [iter_size EXCEPT ![t] = 0]
    /\ current_time' = [current_time EXCEPT ![t] = 0]
    /\ pending_keys' = [pending_keys EXCEPT ![t] = <<>>]

\* The cache after CacheMaxSize files were validated one after the other,
\* none of them older than CACHE_TTL_SECONDS yet.
EvictInit ==
    /\ cache_entries = [k \in CacheKeys |-> IF k <= CacheMaxSize THEN k ELSE 0]
    /\ cache_clock = CacheMaxSize
    /\ expired_below = 1
    /\ epc = [t \in Threads |-> "idle"]
    /\ ekey = [t \in Threads |-> 0]
    /\ iter_size = [t \in Threads |-> 0]
    /\ current_time = [t \in Threads |-> 0]
    /\ pending_keys = [t \in Threads |-> <<>>]
    /\ PoolUnused
    /\ ConvIdle
    /\ BatchIdle
    /\ DocIdle
    /\ ValIdle
    /\ JobIdle
    /\ WorkerIdle
    /\ IntegrityIdle
    /\ ImageIdle
    /\ PathIdle
    /\ SingletonIdle
    /\ ConfirmIdle

\* The keys a new call may name: a cached one, the one another caller is
\* working on, or the first key that is neither.
CallableKeys ==
    LET taken == CachedKeys \cup {ekey[u] : u \in Threads}
        free == CacheKeys \ taken
    IN  (taken \ {0}) \cup
        {k \in free : \A other \in free : k <= other}

\* lines 102-107: the key is built and looked for.
EvictCall(t, k) ==
    /\ epc[t] = "idle"
    /\ k \in CallableKeys
    /\ ekey' = [ekey EXCEPT ![t] = k]
    /\ epc' = [epc EXCEPT ![t] = IF cache_entries[k] # 0 THEN "read"
                                                         ELSE "validate"]
    /\ UNCHANGED <<cache_entries, cache_clock, expired_below, iter_size,
                   current_time, pending_keys>>
    /\ UNCHANGED nonEvictVars

\* lines 108-111: the entry is read; a fresh one is the answer, a KeyError
\* is swallowed at line 115.
EvictRead(t) ==
    /\ epc[t] = "read"
    /\ IF cache_entries[ekey[t]] = 0
       THEN /\ epc' = [epc EXCEPT ![t] = "validate"]
            /\ UNCHANGED <<ekey, iter_size, current_time, pending_keys>>
       ELSE IF cache_entries[ekey[t]] >= expired_below
       THEN EvictReturn(t)
       ELSE /\ epc' = [epc EXCEPT ![t] = "del_stale"]
            /\ UNCHANGED <<ekey, iter_size, current_time, pending_keys>>
    /\ UNCHANGED <<cache_entries, cache_clock, expired_below>>
    /\ UNCHANGED nonEvictVars

\* line 114: del of the stale entry.
EvictDelStale(t) ==
    /\ epc[t] = "del_stale"
    /\ cache_entries' = [cache_entries EXCEPT ![ekey[t]] = 0]
    /\ epc' = [epc EXCEPT ![t] = "validate"]
    /\ UNCHANGED <<cache_clock, expired_below, ekey, iter_size, current_time,
                   pending_keys>>
    /\ UNCHANGED nonEvictVars

\* lines 118-145: a check that fails returns at once, otherwise the result
\* of check_file_integrity goes on to be stored.
EvictValidate(t) ==
    /\ epc[t] = "validate"
    /\ \E early \in BOOLEAN :
          IF early
          THEN EvictReturn(t)
          ELSE /\ epc' = [epc EXCEPT ![t] = "store"]
               /\ UNCHANGED <<ekey, iter_size, current_time, pending_keys>>
    /\ UNCHANGED <<cache_entries, cache_clock, expired_below>>
    /\ UNCHANGED nonEvictVars

\* line 151: the result is stored under the key with time.time().
EvictStore(t) ==
    /\ epc[t] = "store"
    /\ cache_clock < MaxStamp
    /\ cache_clock' = cache_clock + 1
    /\ cache_entries' = [cache_entries EXCEPT ![ekey[t]] = cache_clock + 1]
    /\ epc' = [epc EXCEPT ![t] = "check_len"]
    /\ UNCHANGED <<expired_below, ekey, iter_size, current_time, pending_keys>>
    /\ UNCHANGED nonEvictVars

\* lines 154-155: len(...) > CACHE_MAX_SIZE, then current_time is read and
\* the iteration of line 157 begins.
EvictCheckLen(t) ==
    /\ epc[t] = "check_len"
    /\ IF CacheLen > CacheMaxSize
       THEN /\ current_time' = [current_time EXCEPT ![t] = expired_below]
            /\ iter_size' = [iter_size EXCEPT ![t] = CacheLen]
            /\ epc' = [epc EXCEPT ![t] = "iterating"]
            /\ UNCHANGED <<ekey, pending_keys>>
       ELSE EvictReturn(t)
    /\ UNCHANGED <<cache_entries, cache_clock, expired_below>>
    /\ UNCHANGED nonEvictVars

\* lines 157-160: the iteration ends; a dict whose size changed meanwhile
\* raises RuntimeError, swallowed at line 172.
EvictIterate(t) ==
    /\ epc[t] = "iterating"
    /\ IF CacheLen # iter_size[t]
       THEN EvictReturn(t)
       ELSE /\ pending_keys' = [pending_keys EXCEPT
                    ![t] = KeysByTime(ExpiredKeys(current_time[t]))]
            /\ epc' = [epc EXCEPT ![t] = "del_expired"]
            /\ UNCHANGED <<ekey, iter_size, current_time>>
    /\ UNCHANGED <<cache_entries, cache_clock, expired_below>>
    /\ UNCHANGED nonEvictVars

\* lines 161-162: one del of the loop over expired_keys; a key that is gone
\* raises KeyError, swallowed at line 172.
EvictDelExpired(t) ==
    /\ epc[t] = "del_expired"
    /\ pending_keys[t] # <<>>
    /\ IF cache_entries[Head(pending_keys[t])] = 0
       THEN /\ EvictReturn(t)
            /\ UNCHANGED cache_entries
       ELSE /\ cache_entries' = [cache_entries EXCEPT
                    ![Head(pending_keys[t])] = 0]
            /\ pending_keys' = [pending_keys EXCEPT
                    ![t] = Tail(pending_keys[t])]
            /\ UNCHANGED <<epc, ekey, iter_size, current_time>>
    /\ UNCHANGED <<cache_clock, expired_below>>
    /\ UNCHANGED nonEvictVars

\* lines 165-169: the second len(...) > CACHE_MAX_SIZE and the sorted keys.
EvictCheckLen2(t) ==
    /\ epc[t] = "del_expired"
    /\ pending_keys[t] = <<>>
    /\ IF CacheLen > CacheMaxSize
       THEN /\ pending_keys' = [pending_keys EXCEPT ![t] = OldestKeys]
            /\ epc' = [epc EXCEPT ![t] = "del_oldest"]
            /\ UNCHANGED <<ekey, iter_size, current_time>>
       ELSE EvictReturn(t)
    /\ UNCHANGED <<cache_entries, cache_clock, expired_below>>
    /\ UNCHANGED nonEvictVars

\* lines 170-171: one del of the loop over oldest_keys, then line 175.
EvictDelOldest(t) ==
    /\ epc[t] = "del_oldest"
    /\ IF pending_keys[t] = <<>> \/ cache_entries[Head(pending_keys[t])] = 0
       THEN /\ EvictReturn(t)
            /\ UNCHANGED cache_entries
       ELSE /\ cache_entries' = [cache_entries EXCEPT
                    ![Head(pending_keys[t])] = 0]
            /\ pending_keys' = [pending_keys EXCEPT
                    ![t] = Tail(pending_keys[t])]
            /\ UNCHANGED <<epc, ekey, iter_size, current_time>>
    /\ UNCHANGED <<cache_clock, expired_below>>
    /\ UNCHANGED nonEvictVars

\* CACHE_TTL_SECONDS have passed since one more stored time.
EvictTimePasses ==
    /\ expired_below <= cache_clock
    /\ expired_below' = expired_below + 1
    /\ UNCHANGED <<cache_entries, cache_clock, epc, ekey, iter_size,
                   current_time, pending_keys>>
    /\ UNCHANGED nonEvictVars

EvictNext ==
    \/ \E t \in Threads, k \in CacheKeys : EvictCall(t, k)
    \/ \E t \in Threads : EvictRead(t)
    \/ \E t \in Threads : EvictDelStale(t)
    \/ \E t \in Threads : EvictValidate(t)
    \/ \E t \in Threads : EvictStore(t)
    \/ \E t \in Threads : EvictCheckLen(t)
    \/ \E t \in Threads : EvictIterate(t)
    \/ \E t \in Threads : EvictDelExpired(t)
    \/ \E t \in Threads : EvictCheckLen2(t)
    \/ \E t \in Threads : EvictDelOldest(t)
    \/ EvictTimePasses

SpecEvict == EvictInit /\ [][EvictNext]_vars

(***************************************************************************)
(* Properties of WordPool.                                                 *)
(***************************************************************************)
Idle == Range(pool)

Held(t) == word_instance[t] # 0

C4_IdleHandlesHaveNoOpenDocs ==
    \A h \in Idle : ~handle[h].open_docs

\* C5: once close has returned and no caller holds a handle or is inside a
\* call, the idle collection is empty and every handle that was created has
\* been destroyed.
C5_ClosedPoolHoldsNothing ==
    (closed /\ \A t \in Threads : BetweenCalls(t))
        => (pool = <<>> /\ \A h \in Handles : handle[h].st = "unborn")

C7_FailedProbeHandleDiscarded ==
    /\ \A h \in Idle : ~handle[h].failedProbe
    /\ \A t \in Threads : pc[t] = "use" => ~handle[word_instance[t]].failedProbe


(***************************************************************************)
(* Properties of convert_to_pdf and _compress_pdf.                         *)
(***************************************************************************)
Replaced == pdf_file.content = "rewritten"

\* C1: when _compress_pdf has ended, the file at pdf_path has been replaced
\* if and only if the container written to the temporary path was strictly
\* smaller than the original size and no step failed; it returned true
\* exactly when it replaced the file; in every other outcome the bytes at
\* pdf_path are unchanged and it returned false.
C1_ReplacesIffSmaller ==
    cpc = "c_return" =>
        /\ Replaced => (saved_size # 0 /\ saved_size < original_size
                        /\ pdf_file.size = saved_size)
        /\ (raised_at = "none" /\ saved_size # 0 /\ saved_size < original_size)
              => Replaced
        /\ (compress_success = "true") <=> Replaced
        /\ ~Replaced => pdf_file.content = "converted"
        /\ ~Replaced => compress_success = "false"

\* C2: if the format conversion succeeded, convert_to_pdf returns success
\* whatever happened in the compression step.
C2_CompressionNeverDowngrades ==
    (cpc = "done" /\ success = "true") => returned.success = "true"


(***************************************************************************)
(* Properties of the batch loop and the recovery checkpoint.               *)
(***************************************************************************)
\* C8: every checkpoint that load_state can return (the state stored on
\* disk, and the one the next start has loaded) has
\* remaining = total - |processed \cup failed|, no index both in processed
\* and in failed, and no index twice in either list.
C8_LoadedCheckpointConsistent ==
    \A s \in {LoadState(recovery_file, TRUE), loaded} :
        s.kind = "state" =>
            /\ s.remaining =
                  s.total - Cardinality(Range(s.processed) \cup Range(s.failed))
            /\ Range(s.processed) \cap Range(s.failed) = {}
            /\ Cardinality(Range(s.processed)) = Len(s.processed)
            /\ Cardinality(Range(s.failed)) = Len(s.failed)

\* C8 witness: the next start has loaded the checkpoint written after the
\* fifth job of a longer batch, which records both converted and failed jobs.
C8_Witness ==
    /\ bpc = "restarted"
    /\ loaded.kind = "state"
    /\ loaded.processed # <<>>
    /\ loaded.failed # <<>>
    /\ Len(loaded.processed) + Len(loaded.failed) = CheckpointEvery
    /\ loaded.total > CheckpointEvery

\* C9: between two jobs, once five or more jobs are finished and no
\* save_state call has failed, the checkpoint on disk records exactly the
\* indices of the jobs finished up to the last multiple of five, whatever
\* the outcome of the 5th, 10th, ... job was.
C9_CheckpointAtEveryFifthJob ==
    (bpc = "loop" /\ "save_state" \notin recovery_errors
        /\ next_index >= CheckpointEvery)
        => /\ recovery_file.kind = "state"
           /\ Range(recovery_file.processed) \cup Range(recovery_file.failed)
                 = 0 .. (next_index - (next_index % CheckpointEvery) - 1)

C11_CancellationOnlyBetweenJobs ==
    /\ [](JobInFlight => ENABLED JobConverted)
    /\ [][JobInFlight => bpc' # "finished"]_vars
    /\ [][(bpc \in {"loop", "job"} /\ stop_conversion /\ bpc' \in {"loop", "job"})
            => stop_conversion']_vars
    /\ [][(bpc = "loop" /\ stop_conversion) => bpc' # "job"]_vars
    /\ [][(JobInFlight /\ bpc' = "loop") =>
            /\ next_index' = next_index + 1
            /\ \/ /\ processed_indices' = Append(processed_indices, next_index)
                  /\ failed_indices' = failed_indices
               \/ /\ failed_indices' = Append(failed_indices, next_index)
                  /\ processed_indices' = processed_indices]_vars

\* C11 witness: the stop flag has been set while a job that is not the first
\* of the batch is in flight.
C11_Witness ==
    /\ JobInFlight
    /\ stop_conversion
    /\ next_index > 0

\* C12: whatever happens to a job, the worker goes on to the next one: the
\* worker leaves the loop only from its head, through the completion step,
\* and only when the stop flag is set or the list is exhausted (the process
\* being stopped from outside apart).
C12_OnlyCancellationStopsBatch ==
    [][(bpc \in {"loop", "job"} /\ bpc' \notin {"loop", "job", "crashed"})
          => /\ bpc = "loop"
             /\ bpc' = "finished"
             /\ stop_conversion \/ next_index >= files_len]_vars

(***************************************************************************)
(* Properties of _convert_doc.                                             *)
(***************************************************************************)
\* C13: whichever exit path _convert_doc took, when it returns the document,
\* if it was opened, is no longer open, the Word process started for the job
\* is gone, and the CoInitialize of the thread has been undone exactly once.
C13_CleanupOnEveryExit ==
    dpc = "returned" =>
        /\ doc # "open"
        /\ word # "live"
        /\ com_tokens = 0


(***************************************************************************)
(* Further properties of the Word pool.                                    *)
(***************************************************************************)
\* C14: a handle in a thread's hands (being probed, used or put back) was
\* created by that thread, under that thread's own CoInitialize.
C14_HandleStaysWithCreator ==
    \A t \in Threads :
        (Held(t) /\ pc[t] \in {"probe", "use", "put"})
            => handle[word_instance[t]].creator = t

\* C15: close is final and idempotent. Once the pool is closed it stays
\* closed; a thread that begins a call on the closed pool (get_word or close)
\* ends it at once, in its next step, without taking the lock, without
\* receiving or creating a handle and without changing the queue; and a close
\* that finds the pool already closed at its second check changes nothing.
C15_CloseFinalAndIdempotent ==
    /\ [][closed => closed']_vars
    /\ [][\A t \in Threads :
            (closed /\ BetweenCalls(t)) =>
                /\ pc'[t] \in {"idle", "rejected"}
                /\ word_instance'[t] = 0
                /\ pc'[t] # pc[t] =>
                      UNCHANGED <<pool, handle, lock, word_instance, closed>>]_vars
    /\ [][\A t \in Threads :
            (closed /\ pc[t] = "close_body" /\ pc'[t] # pc[t]) =>
                UNCHANGED <<pool, handle, closed, word_instance>>]_vars

\* C15 witness: the pool is closed, one thread's get_word has been rejected
\* with the RuntimeError and another thread holds no handle either.
C15_Witness ==
    /\ closed
    /\ \E t \in Threads : pc[t] = "rejected" /\ word_instance[t] = 0

\* C16: close never waits for another thread's acquire: whenever a thread
\* that is in no call could call close on an open pool that no other thread
\* is closing, the call can take the pool's lock whatever the other threads
\* are doing inside get_word.
C16_CloseNeverWaitsForAcquire ==
    \A t \in Threads :
        (BetweenCalls(t) /\ ~closed /\ \A u \in Threads : pc[u] # "close_body")
            => ENABLED CloseLock(t)

(***************************************************************************)
(* Further properties of _compress_pdf.                                    *)
(***************************************************************************)
\* C17: _compress_pdf never raises: when it has ended it has returned true
\* or false, and false whenever one of its steps failed.
C17_CompressNeverRaises ==
    cpc = "c_return" =>
        /\ compress_success \in {"true", "false"}
        /\ raised_at # "none" => compress_success = "false"

(***************************************************************************)
(* Properties of validate_file.                                            *)
(***************************************************************************)
\* The checks of lines 118-144, in the order of the code.
CheckOrder == <<"exists", "is_file", "extension", "size", "access", "integrity">>

\* The message of the return that follows each check when it fails.
FailureReason ==
    [c \in Range(CheckOrder) |->
        CASE c = "exists" -> "not_found"
          [] c = "is_file" -> "not_a_file"
          [] c = "extension" -> "unsupported_extension"
          [] c = "size" -> "too_large"
          [] c = "access" -> "unreadable"
          [] c = "integrity" -> "corrupt"]

\* What the checks of lines 118-144 answer on the file system and the ceiling
\* of this moment.
FirstFailingCheck ==
    IF file_system.kind = "missing" THEN "not_found"
    ELSE IF file_system.kind # "file" THEN "not_a_file"
    ELSE IF suffix \notin SUPPORTED_EXTENSIONS THEN "unsupported_extension"
    ELSE IF file_system.size > MAX_FILE_SIZE_MB THEN "too_large"
    ELSE IF ~file_system.readable THEN "unreadable"
    ELSE IF ~file_system.intact THEN "corrupt"
    ELSE "OK"

\* A result that the checks produced: the checks performed are the first
\* ones of the fixed order, and the result is the reason of the last one
\* performed, or OK when all six were performed and the last one passed.
ResultOfOrderedChecks ==
    /\ performed # <<>>
    /\ performed = SubSeq(CheckOrder, 1, Len(performed))
    /\ IF validation.valid
       THEN validation.msg = "OK" /\ performed = CheckOrder
       ELSE validation.msg = FailureReason[performed[Len(performed)]]

\* The step of the existence check and the step of the size check: a missing
\* path is answered not-found; a size above the ceiling is answered
\* too-large, a size up to the ceiling goes on to the access check.
ExistenceAndSizeSteps ==
    /\ (vpc = "exists" /\ vpc' # vpc /\ file_system.kind = "missing")
          => (vpc' = "returned" /\ ~validation'.valid
              /\ validation'.msg = "not_found")
    /\ (vpc = "size" /\ vpc' # vpc /\ file_system.kind # "missing")
          => IF file_system.size > MAX_FILE_SIZE_MB
             THEN /\ vpc' = "returned"
                  /\ ~validation'.valid
                  /\ validation'.msg = "too_large"
             ELSE vpc' = "access"

\* C18: validate_file never raises: no call ends with an exception.
C18_ValidateNeverRaises == vpc # "raised"

C20_LevelUsedWithinRange ==
    cpc \in {"c_open", "c_save", "c_stat_tmp", "c_compare"} =>
        /\ compression_level \in Levels
        /\ \A l \in Levels :
              (/\ JpegQuality(compression_level) = JpegQuality(l)
               /\ SavePolicy(compression_level) = SavePolicy(l))
                  => compression_level = l

(***************************************************************************)
(* Properties of the loop body.                                            *)
(***************************************************************************)
\* C21: a job skipped because its destination exists is neither counted nor
\* recorded as failed or as succeeded, no conversion was dispatched for it
\* and the destination file is the one that was there.
C21_SkippedIsNotFailed ==
    (jpc = "next" /\ file_status = "exists") =>
        /\ fail_count = 0 /\ ~job_failed
        /\ success_count = 0 /\ ~job_processed
        /\ ~dispatched
        /\ output_files.plain = "old"

(***************************************************************************)
(* Further properties of the recovery checkpoint.                          *)
(***************************************************************************)
\* C22: for every checkpoint the batch loop has written, get_remaining_files
\* returns, in the order of the list, exactly the files whose index is in
\* neither stored list, and as many files as the stored remaining value.
C22_RemainingFilesMatchCount ==
    recovery_file.kind = "state" =>
        LET remaining == GetRemainingFiles(LoadState(recovery_file, TRUE))
        IN  /\ \A k \in 1..Len(remaining) - 1 : remaining[k] < remaining[k + 1]
            /\ Range(remaining) =
                  (0..recovery_file.total - 1)
                      \ (Range(recovery_file.processed) \cup Range(recovery_file.failed))
            /\ Len(remaining) = recovery_file.remaining


\* C23: at most one conversion thread runs at any time; while is_converting
\* is set no step starts a thread (a call of _on_convert returns at line
\* 382), and is_converting is set in every state in which a thread runs.
C23_AtMostOneWorker ==
    [][/\ alive_workers' <= 1
       /\ alive_workers' >= 1 => is_converting'
       /\ is_converting => alive_workers' <= alive_workers]_vars

\* C23 witness: a thread is in a job, the list is not empty, and a call of
\* _on_convert meets the check of line 382.
C23_Witness ==
    /\ alive_workers = 1
    /\ wpc = "body"
    /\ files_list # <<>>
    /\ AlreadyConverting


\* C24: a call of convert_to_pdf for a path that does not exist returns
\* (False, not found) whatever the suffix; for an existing file whose
\* lowered suffix is neither .docx nor .doc it returns (False, unsupported
\* format); in both cases no engine ran and _compress_pdf was not entered.
C24_ExistenceThenExtension ==
    (cpc # "start" /\ (~input_exists \/ SuffixLower(file_ext) \notin {".docx", ".doc"})) =>
        /\ cpc = "done"
        /\ returned = [success |-> "false", compressed |-> FALSE,
                       kind |-> IF ~input_exists THEN "not_found" ELSE "unsupported"]
        /\ success = "none"
        /\ pdf_file = NoFile
        /\ compress_success = "none"
        /\ raised_at = "none"

\* C24 witness: an existing file with the suffix .TXT has been refused as
\* unsupported.
C24_Witness ==
    /\ cpc = "done"
    /\ input_exists
    /\ file_ext = ".TXT"
    /\ returned.kind = "unsupported"


\* C25: check_file_integrity rejects every .doc file whose first 8 bytes are
\* not D0 CF 11 E0 A1 B1 1A E1, every .doc file shorter than 8 bytes, and
\* every .docx file that is not a valid archive or has no
\* [Content_Types].xml or no word/document.xml entry; it accepts a .doc file
\* that can be read and starts with the 8 bytes.
C25_IntegrityBySignatureAndEntries ==
    ipc = "returned" =>
        LET f == integrity_file
            ext == SuffixLower(f.suffix)
            signed == /\ Len(f.content) >= 8
                      /\ SubSeq(f.content, 1, 8) = <<208, 207, 17, 224, 161, 177, 26, 225>>
        IN  /\ (ext = ".doc" /\ ~signed) => ~integrity.valid
            /\ (ext = ".docx" /\ (~f.is_zip \/ ~f.opens
                                   \/ "[Content_Types].xml" \notin f.names
                                   \/ "word/document.xml" \notin f.names))
                   => ~integrity.valid
            /\ (ext = ".doc" /\ signed /\ f.openable) => integrity.valid

\* C25 witness: a .doc file of more than 8 bytes that starts with the
\* signature has been accepted.
C25_Witness ==
    /\ ipc = "returned"
    /\ integrity_file.suffix = ".doc"
    /\ Len(integrity_file.content) > 8
    /\ integrity.valid


\* C26: for a colour image saved as JPEG at a level in 1..9, the quality is
\* the one of the ladder 100, 95, 90, 85, 80, 75, 65, 55, 45 and no higher
\* level has a greater quality (for an image with transparency likewise, over
\* the levels that save it as JPEG); an image that is resized at one level is
\* resized at every higher level, none is resized at levels 1-4, and an image
\* is resized exactly when a side exceeds the dimension it is reduced to at
\* that level (2000, 1600, 1400, 1200, 1000 at levels 5 to 9).
C26_QualityAndResizeMonotone ==
    (img_pc = "done" /\ img_out.format = "JPEG" /\ img_level \in 1..9) =>
        LET ladder == <<100, 95, 90, 85, 80, 75, 65, 55, 45>>
            sizes == <<0, 0, 0, 0, 2000, 1600, 1400, 1200, 1000>>
            side == IF img.width > img.height THEN img.width ELSE img.height
        IN  /\ img_out.quality = ladder[img_level]
            /\ \A m \in img_level..9 :
                  /\ JpegQuality(m) <= img_out.quality
                  /\ m >= 5 => RgbaQuality(m) <= img_out.quality
                  /\ img_out.resized => ShouldResize(m, img.width, img.height)
            /\ img_level <= 4 => ~img_out.resized
            /\ img.mode # "RGBA" /\ img_level >= 5 =>
                  /\ img_out.resized <=> side > sizes[img_level]
                  /\ img_out.resized => img_out.max_side = sizes[img_level]
                  /\ img_out.max_side <= sizes[img_level]

\* C26 witness: at level 6 an image 1601 wide has been reduced to 1600.
C26_Witness ==
    /\ img_pc = "done"
    /\ img_level = 6
    /\ img.width = 1601
    /\ img_out.resized
    /\ img_out.max_side = 1600


\* C27: with auto_number, get_output_path returns a path that does not
\* exist: the plain path if it is free, else '<stem> (n).pdf' with the
\* smallest n >= 1 that does not exist; without auto_number it returns the
\* plain path whether it exists or not.  The loop makes at most as many
\* passes as there are existing files.
C27_FirstFreeNumberedPath ==
    /\ gp_counter <= Cardinality(gp_existing) + 1
    /\ gpc = "returned" =>
          IF gp_auto_number
          THEN /\ gp_output_path \notin gp_existing
               /\ gp_output_path >= 0
               /\ \A n \in 0..gp_output_path - 1 : n \in gp_existing
          ELSE gp_output_path = 0

\* C27 witness: '<stem>.pdf' and '<stem> (1).pdf' exist, '<stem> (3).pdf' too,
\* and '<stem> (2).pdf' has been returned.
C27_Witness ==
    /\ gpc = "returned"
    /\ gp_auto_number
    /\ gp_existing = {0, 1, 3}
    /\ gp_output_path = 2


\* The handles the pool owns: those in the queue and those a caller received
\* from the queue and is to put back.
PoolOwned ==
    Len(pool) + Cardinality({t \in Threads : Held(t) /\ retrieved_from_pool[t]})

\* C29: while the pool is open, no step lowers the number of handles the pool
\* owns; in particular a get_word whose probe failed and whose handle was
\* replaced puts a handle back, so that the queue is as long after the
\* release as it was before the acquire.
C29_PoolOwnedNeverDecreases ==
    [][(~closed /\ ~closed') => PoolOwned' >= PoolOwned]_vars


\* C28: when the loop of a batch has run to its end without a stop, every
\* file that was in the list when the batch started has been handled exactly
\* once; and the list stored by a checkpoint has, at each index recorded so
\* far, the file that was handled under that index, whatever the user added
\* to or removed from the list meanwhile.
C28_EveryStartedFileHandledOnce ==
    /\ (wpc = "ended" /\ ~stop_flag) =>
          \A f \in Range(started_with) :
              Cardinality({k \in 1..Len(handled) : handled[k] = f}) = 1
    /\ checkpoint.saved =>
          \A k \in 1..checkpoint.count :
              /\ k <= Len(checkpoint.files)
              /\ checkpoint.files[k] = handled[k]


\* C30: every batch that has been started finishes: whatever the jobs do,
\* an error raised inside the loop included, is_converting becomes false
\* again with no checkpoint left, so that a new batch can be started.
C30_StartedBatchFinishes ==
    is_converting ~> (~is_converting /\ ~checkpoint.saved)


\* C31: the re-encoded stream of an image that was re-encoded, opaque or
\* with an alpha channel, replaces the embedded one at levels 1-2 only if it
\* is strictly smaller than the original bytes, and at every level from 3 on
\* whether it is smaller or not.
C31_ReplaceSmallerOrFromLevelThree ==
    (img_pc = "done" /\ img_out.format \in {"JPEG", "PNG"} /\ img_level >= 1) =>
        /\ img_level <= 2 => (img_out.replaced => img_out.smaller)
        /\ img_level >= 3 => img_out.replaced

\* C32: at a level from 5 to 9 a re-encoded image, opaque or with an alpha
\* channel, whose larger side exceeds the threshold of the level is reduced
\* so that its larger side is at most the threshold, and one whose larger
\* side is at most the threshold is not resized.
C32_LargerSideWithinThreshold ==
    (img_pc = "done" /\ img_out.format \in {"JPEG", "PNG"} /\ img_level \in 5..9) =>
        LET thresholds == <<0, 0, 0, 0, 2000, 1600, 1400, 1200, 1000>>
            side == IF img.width > img.height THEN img.width ELSE img.height
        IN  /\ img_out.max_side <= thresholds[img_level]
            /\ side <= thresholds[img_level] => ~img_out.resized

\* C39: whether an image stream is touched depends on the level and on its
\* filter only: at level 1 none is decoded or replaced; at level 2 those
\* without a filter or with /FlateDecode are taken up and no other; from
\* level 3 on every stream is taken up.
C39_TouchedByLevelAndFilter ==
    (img_pc = "done" /\ img_level >= 1) =>
        LET touched == img_out.format # "skipped"
        IN  /\ img_level = 1 => (~touched /\ ~img_out.replaced)
            /\ img_level = 2 => (touched <=> img.filter \in {"none", "/FlateDecode"})
            /\ img_level >= 3 => touched
            /\ ~touched => ~img_out.replaced

\* C39 witness: at level 2 a stream with /DCTDecode has been left alone.
C39_Witness ==
    /\ img_pc = "done"
    /\ img_level = 2
    /\ img.filter = "/DCTDecode"
    /\ img_out.format = "skipped"


\* C33: a call of validate_file with the cache that is not answered from the
\* cache stores what it returns, whatever it is, under the path and the
\* mtime of the file, so that the same call repeated at once is answered
\* from the cache.
C33_ComputedResultIsStored ==
    [][(/\ use_cache
        /\ vpc # "returned" /\ vpc' = "returned"
        /\ ~validation'.from_cache
        /\ file_system.kind = "file") =>
            LET entry == validation_cache'[file_system.mtime]
            IN  /\ entry.stored /\ ~entry.expired
                /\ entry.valid = validation'.valid
                /\ entry.msg = validation'.msg]_vars

\* C35: a call answered from the cache returns what the checks answer at
\* that moment on the file and the ceiling as they are now; a result cached
\* as valid is not returned once the ceiling is below the size of the file
\* or the file cannot be read.
C35_CachedAnswerIsPresentAnswer ==
    [][(vpc = "lookup" /\ vpc' = "returned") =>
            /\ validation'.valid <=> FirstFailingCheck = "OK"
            /\ validation'.msg = FirstFailingCheck]_vars


\* C36: for every job that passed validation the free space of the volume
\* of the destination is checked against 1.3 times the input size before
\* convert_to_pdf is called, with or without an output folder; when the free
\* space is less, the job is recorded as failed and convert_to_pdf is not
\* called for it.
C36_DiskCheckedBeforeDispatch ==
    (jpc = "convert" \/ dispatched) =>
        /\ disk_checked
        /\ free_tenths >= 13 * input_size_mb


\* C38: under any interleaving of get_word_pool and close_global_pool,
\* get_word_pool returns a pool, never None, that is not closed at the
\* moment it is returned, and at most one pool that was made the global one
\* is open at any time.
C38_ReturnsOpenPool ==
    /\ [][\A t \in Threads :
            (spc[t] = "get_return" /\ spc'[t] = "idle") =>
                /\ got_pool'[t] # 0
                /\ got_pool'[t] \notin closed_pools']_vars
    /\ [](Cardinality((1..created_pools) \ closed_pools) <= 1)


\* C40: in the batch variant that asks before overwriting, a job that was
\* converted over its existing destination is one whose own question the
\* user answered yes: an answer given after the worker stopped waiting for
\* it does not let a later job be converted, and a job answered no or not
\* answered is skipped.
C40_AnswerAffectsOnlyItsJob ==
    asked_converted \subseteq answered_yes


\* C34: whenever validate_file has returned and no other caller is between
\* storing its result and the end of its eviction, the validation cache
\* holds at most CACHE_MAX_SIZE entries.
C34_CacheWithinMaximumOnReturn ==
    (\A t \in Threads :
        epc[t] \notin {"check_len", "iterating", "del_expired", "del_oldest"})
    => Cardinality({k \in CacheKeys : cache_entries[k] # 0}) <= CacheMaxSize

\* C37: no two callers are at the same time inside a part of validate_file
\* that iterates over the validation cache for eviction or deletes from it
\* in a loop.
C37_CacheSectionsExclusive ==
    \A t, u \in Threads :
        t # u =>
            ~ /\ epc[t] \in {"iterating", "del_expired", "del_oldest"}
              /\ epc[u] \in {"iterating", "del_expired", "del_oldest"}

=============================================================================
